---- MODULE Spec2Model ----
(***************************************************************************)
(* Verification model of the stock-analysis scoring and signal pipeline    *)
(* (plugins/stock-analysis/scripts).                                       *)
(*                                                                         *)
(* Numbers.  Scores are kept in hundredths of a point (7.0 is 700), so     *)
(* that round(x, 2) is a real rounding step from thousandths.  Quote and   *)
(* bar prices are kept in mills (0.001); round(v, 2) and the "{:.2f}"      *)
(* formatting turn mills into cents, rounding half to even.                *)
(*                                                                         *)
(* Specifications.                                                         *)
(*   Spec        the batch: GroupAnalyzer.analyze_group and                *)
(*               TradingSignalGenerator.generate_group_signals             *)
(*   SpecSignal  _calculate_signal_score and _generate_recommendation      *)
(*               over pattern lists                                        *)
(*   SpecLevels  get_support_resistance followed by _calculate_key_levels  *)
(*   SpecDetect  PatternDetector.detect_patterns (moving-average crosses)  *)
(*   SpecScore   ScoringEngine                                             *)
(*   SpecScan    analyze_stock called repeatedly on a fixed snapshot       *)
(*   SpecEvents  _detect_breakout and _detect_overbought_oversold          *)
(*   SpecFrame   what the callees do to the caller's candle frame          *)
(*   SpecSummary _generate_group_summary                                   *)
(*   SpecDetected  as SpecSignal, on the lists the detector can produce    *)
(*   SpecRetry   AKShareProvider._fetch_with_retry                         *)
(*   SpecSentiment  SentimentAnalyzer._calculate_limit_up_ratio            *)
(***************************************************************************)
EXTENDS Integers, Sequences, FiniteSets, TLC

VARIABLES
    pc,              \* position of the running operation
    \* ---- batch (Spec)
    entry,           \* "generate_group_signals" or "analyze_group"
    symbols,         \* the symbol list handed to the batch
    i,               \* loop index of generate_group_signals
    buy_list, hold_list, sell_list,
    dropped,         \* error records the loop skipped (line 95-96)
    spots,           \* quote snapshot the collaborator gave per symbol
    group_result,    \* what the batch returned
    \* ---- signal score / recommendation (SpecSignal)
    signals, overall_score, recommendation,
    \* ---- support / resistance / key levels (SpecLevels)
    df, window, scan_result, key_levels,
    \* ---- pattern detection (SpecDetect)
    closes, patterns,
    \* ---- scoring engine (SpecScore)
    call, score_result,
    fetched,         \* the data-source fetches the call made
    \* ---- single-stock scan (SpecScan)
    answers,         \* what the collaborators give for the symbol
    runs,            \* outcome of each analyze_stock call made so far
    \* ---- single detectors (SpecEvents)
    bars,            \* the indicator frame handed to the detector
    events,          \* the events it returned
    \* ---- ownership of the caller's series (SpecFrame)
    caller_df,       \* the caller's frame
    df_before,       \* its value when the call was made
    work_df,         \* the frame the callee worked on
    \* ---- fetch with retry (SpecRetry)
    retry_times,     \* the provider's retry_times
    attempt,         \* loop variable of _fetch_with_retry
    fetch_log,       \* outcome of each fetch_func call made so far
    sleeps,          \* number of time.sleep(retry_delay) calls made so far
    retry_result     \* what _fetch_with_retry returned or raised

batchVars  == <<entry, symbols, i, buy_list, hold_list, sell_list, dropped, spots, group_result>>
signalVars == <<signals, overall_score, recommendation>>
levelVars  == <<df, window, scan_result, key_levels>>
detectVars == <<closes, patterns>>
scoreVars  == <<call, score_result, fetched>>
scanVars   == <<answers, runs>>
eventVars  == <<bars, events>>
frameVars  == <<caller_df, df_before, work_df>>
retryVars  == <<retry_times, attempt, fetch_log, sleeps, retry_result>>
restVars   == <<scanVars, eventVars, frameVars, retryVars>>
vars == <<pc, batchVars, signalVars, levelVars, detectVars, scoreVars, restVars>>

\* A nullable number is <<>> (Python None, or a NaN reading) or <<n>>.
Null == <<>>
Some(n) == <<n>>
Val(x) == x[1]
None == "none"      \* a variable not in use or not yet assigned

(***************************************************************************)
(* Bounds of the model.                                                    *)
(***************************************************************************)
MaxEvents == 4      \* longest pattern list handed to the signal scorer
MaxBars == 4        \* longest candle series handed to get_support_resistance
MaxSymbols == 3     \* longest symbol list handed to a batch

(***************************************************************************)
(* Arithmetic helpers.                                                     *)
(***************************************************************************)
Max(a, b) == IF a >= b THEN a ELSE b
Min(a, b) == IF a <= b THEN a ELSE b

SetMax(S) == CHOOSE x \in S : \A y \in S : y <= x
SetMin(S) == CHOOSE x \in S : \A y \in S : x <= y

\* round(n / d) for n >= 0, d > 0, ties to the even neighbour: what Python's
\* round(x, 2) and "{:.2f}" do on a value that is exact at the finer scale.
RoundHalfEven(n, d) ==
    LET q == n \div d
        r == n % d
    IN  IF 2 * r < d THEN q
        ELSE IF 2 * r > d THEN q + 1
        ELSE IF q % 2 = 0 THEN q ELSE q + 1

RECURSIVE SumStrength(_)
SumStrength(s) == IF s = <<>> THEN 0 ELSE Head(s).strength + SumStrength(Tail(s))

\* len([s for s in signals if s.strength > t]) and its mirror
CountAbove(s, t) == Cardinality({k \in 1..Len(s) : s[k].strength > t})
CountBelow(s, t) == Cardinality({k \in 1..Len(s) : s[k].strength < t})

(***************************************************************************)
(* TradingSignalGenerator: thresholds (signal_generator.py:33-35).         *)
(***************************************************************************)
buy_threshold == 700
sell_threshold == 300

(***************************************************************************)
(* _calculate_signal_score (signal_generator.py:116-136).  Result in       *)
(* hundredths.  5.0 + (total / 8) * 5 is 5000 + 625 * total thousandths.   *)
(***************************************************************************)
SignalScoreNoClamp(sigs) ==
    IF sigs = <<>> THEN 500
    ELSE RoundHalfEven(Max(0, 5000 + 625 * SumStrength(sigs)), 10)

calculate_signal_score(sigs) ==
    IF sigs = <<>> THEN 500
    ELSE LET total_strength == SumStrength(sigs)
             score == 5000 + 625 * total_strength
         IN  RoundHalfEven(Max(0, Min(10000, score)), 10)

(***************************************************************************)
(* _generate_recommendation (signal_generator.py:138-171).  Risk levels    *)
(* "very_high", "high", "low", "medium" stand for the source's             *)
(* "极高", "高", "低", "中".                                                  *)
(***************************************************************************)
\* the risk level with the cuts at -5 and 5 instead of -3 and 3
RiskLevelWiderBand(sigs) ==
    LET negative_signals == CountBelow(sigs, -5)
        positive_signals == CountAbove(sigs, 5)
    IN  IF negative_signals > 0
        THEN (IF negative_signals >= 2 THEN "very_high" ELSE "high")
        ELSE IF positive_signals > 0 THEN "low"
        ELSE "medium"

RiskLevelSwapped(sigs) ==
    LET negative == CountBelow(sigs, -3)
        positive == CountAbove(sigs, 3)
    IN  IF positive > 0 THEN "low"
        ELSE IF negative > 0 THEN (IF negative >= 2 THEN "very_high" ELSE "high")
        ELSE "medium"

RiskLevel(sigs) ==
    LET negative_signals == CountBelow(sigs, -3)
        positive_signals == CountAbove(sigs, 3)
    IN  IF negative_signals > 0
        THEN (IF negative_signals >= 2 THEN "very_high" ELSE "high")
        ELSE IF positive_signals > 0 THEN "low"
        ELSE "medium"

ActionStrict(score) ==
    IF score > buy_threshold THEN "buy"
    ELSE IF score < sell_threshold THEN "sell"
    ELSE "hold"

Action(score) ==
    IF score >= buy_threshold THEN "buy"
    ELSE IF score <= sell_threshold THEN "sell"
    ELSE "hold"

generate_recommendation(score, sigs) ==
    [action |-> Action(score), risk_level |-> RiskLevel(sigs), reason |-> <<Action(score), score>>]

(***************************************************************************)
(* PatternDetector.get_support_resistance (pattern_detector.py:299-325).   *)
(* A bar is [low, high] in mills; levels come out in cents.                *)
(***************************************************************************)
\* round(v, 2) of a price in mills, in cents
Round2(v) == RoundHalfEven(v, 10)

\* sorted(S) of a set of numbers, ascending
RECURSIVE Sorted(_)
Sorted(S) ==
    IF S = {} THEN <<>>
    ELSE LET lo == SetMin(S) IN <<lo>> \o Sorted(S \ {lo})

\* seq[-3:]
LastThree(seq) ==
    IF Len(seq) <= 3 THEN seq ELSE SubSeq(seq, Len(seq) - 2, Len(seq))

\* seq[:3], the slice a "lowest lows" reading of support would take
FirstThree(seq) ==
    IF Len(seq) <= 3 THEN seq ELSE SubSeq(seq, 1, 3)

\* df.tail(w)
TailRows(frame, w) ==
    IF Len(frame) <= w THEN frame ELSE SubSeq(frame, Len(frame) - w + 1, Len(frame))

SupportResistanceLowest(frame, w) ==
    IF Len(frame) = 0 \/ Len(frame) < w
    THEN [support_levels |-> <<>>, resistance_levels |-> <<>>]
    ELSE LET recent == TailRows(frame, w)
         IN  [support_levels |->
                  FirstThree(Sorted({Round2(recent[k].low) : k \in DOMAIN recent})),
              resistance_levels |->
                  LastThree(Sorted({Round2(recent[k].high) : k \in DOMAIN recent}))]

get_support_resistance(frame, w) ==
    IF Len(frame) = 0 \/ Len(frame) < w
    THEN [support_levels |-> <<>>, resistance_levels |-> <<>>]
    ELSE LET recent == TailRows(frame, w)
             lows == {Round2(recent[k].low) : k \in DOMAIN recent}
             highs == {Round2(recent[k].high) : k \in DOMAIN recent}
         IN  [support_levels |-> LastThree(Sorted(lows)),
              resistance_levels |-> LastThree(Sorted(highs))]

(***************************************************************************)
(* _calculate_key_levels (signal_generator.py:173-215).  The texts         *)
(* "{a:.2f}-{b:.2f}" and "{x:.2f}" are <<a, b>> and <<x>> in cents; the    *)
(* text "-" is <<>>.                                                       *)
(***************************************************************************)
Unavailable == <<>>

\* A null price passes the price == 0 test and then makes the ":.2f"
\* formatting (line 196) or the multiplication (line 198) raise TypeError.
KeyLevelsRaises(scan) == scan.price = Null

\* "{v:.2f}" of the value n / d cents
Fmt2(n, d) == RoundHalfEven(n, d)

SeqMin(seq) == SetMin({seq[k] : k \in DOMAIN seq})
SeqMax(seq) == SetMax({seq[k] : k \in DOMAIN seq})

KeyLevelsNoZeroGuard(scan) ==
    LET price == scan.price
        support == scan.support_levels
        resistance == scan.resistance_levels
    IN  [entry_zone |-> IF support # <<>>
                        THEN <<SeqMin(support), Fmt2(Val(price), 10)>>
                        ELSE <<Fmt2(Val(price) * 98, 1000), Fmt2(Val(price), 10)>>,
         target_zone |-> IF resistance # <<>>
                         THEN <<Fmt2(Val(price), 10), SeqMax(resistance)>>
                         ELSE <<Fmt2(Val(price), 10), Fmt2(Val(price) * 110, 1000)>>,
         stop_loss |-> IF support # <<>>
                       THEN <<Fmt2(SeqMin(support) * 97, 100)>>
                       ELSE <<Fmt2(Val(price) * 95, 1000)>>]

KeyLevelsNearestSupport(scan) ==
    LET price == scan.price
        support == scan.support_levels
        resistance == scan.resistance_levels
    IN  IF Val(price) = 0
        THEN [entry_zone |-> Unavailable, target_zone |-> Unavailable,
              stop_loss |-> Unavailable]
        ELSE [entry_zone |-> IF support # <<>>
                             THEN <<SeqMax(support), Fmt2(Val(price), 10)>>
                             ELSE <<Fmt2(Val(price) * 98, 1000), Fmt2(Val(price), 10)>>,
              target_zone |-> IF resistance # <<>>
                              THEN <<Fmt2(Val(price), 10), SeqMax(resistance)>>
                              ELSE <<Fmt2(Val(price), 10), Fmt2(Val(price) * 110, 1000)>>,
              stop_loss |-> IF support # <<>>
                            THEN <<Fmt2(SeqMax(support) * 97, 100)>>
                            ELSE <<Fmt2(Val(price) * 95, 1000)>>]

calculate_key_levels(scan) ==
    LET price == scan.price
        support == scan.support_levels
        resistance == scan.resistance_levels
    IN  IF Val(price) = 0
        THEN [entry_zone |-> Unavailable, target_zone |-> Unavailable,
              stop_loss |-> Unavailable]
        ELSE LET entry_zone == IF support # <<>>
                               THEN <<SeqMin(support), Fmt2(Val(price), 10)>>
                               ELSE <<Fmt2(Val(price) * 98, 1000), Fmt2(Val(price), 10)>>
                 target_zone == IF resistance # <<>>
                                THEN <<Fmt2(Val(price), 10), SeqMax(resistance)>>
                                ELSE <<Fmt2(Val(price), 10), Fmt2(Val(price) * 110, 1000)>>
                 stop_loss == IF support # <<>>
                              THEN Fmt2(SeqMin(support) * 97, 100)
                              ELSE Fmt2(Val(price) * 95, 1000)
             IN  [entry_zone |-> entry_zone, target_zone |-> target_zone,
                  stop_loss |-> <<stop_loss>>]

(***************************************************************************)
(* ScoringEngine (scoring_engine.py).  Scores in hundredths.               *)
(*                                                                         *)
(* A candle frame is seen through the cells the engine reads:              *)
(*   n            len(df)                                                  *)
(*   indicators   whether the frame has the columns ma_5, ma_20, rsi and   *)
(*                macd_hist (the provider's frame has none of them)        *)
(*   close, volume             of the last row                             *)
(*   ma_5, ma_20, rsi, macd_hist   the indicators of the series at the     *)
(*                last row; the engine can read them only when the frame   *)
(*                has the columns                                          *)
(*   prev_close, prev_volume                      of the row before it     *)
(*   start_close  close of the first of the trailing ten rows              *)
(* each cell a nullable number.  A comparison with a null (NaN) cell is    *)
(* false, as in Python.                                                    *)
(***************************************************************************)
MinBars == 20

Clamp10(score) == Max(0, Min(1000, score))

NotNa(x) == x # Null
Gt(x, y) == NotNa(x) /\ NotNa(y) /\ Val(x) > Val(y)

\* the trend score with the step down for ma_5 <= ma_20 left out
TrendScoreNoPenalty(frame) ==
    IF frame.n < MinBars THEN 500
    ELSE LET ma_step == IF frame.indicators /\ Gt(frame.ma_5, frame.ma_20)
                        THEN 100 ELSE 0
             price_step == IF frame.indicators /\ Gt(frame.close, frame.ma_20)
                           THEN 50 ELSE 0
             direction_step == IF Gt(frame.close, frame.start_close) THEN 50 ELSE 0
         IN  Clamp10(500 + ma_step + price_step + direction_step)

\* _calculate_trend_score (scoring_engine.py:85-117)
calculate_trend_score(frame) ==
    IF frame.n < MinBars THEN 500
    ELSE LET ma_step == IF frame.indicators /\ NotNa(frame.ma_5) /\ NotNa(frame.ma_20)
                        THEN (IF Val(frame.ma_5) > Val(frame.ma_20) THEN 100 ELSE -100)
                        ELSE 0
             price_step == IF frame.indicators /\ Gt(frame.close, frame.ma_20)
                           THEN 50 ELSE 0
             direction_step == IF Gt(frame.close, frame.start_close) THEN 50 ELSE 0
         IN  Clamp10(500 + ma_step + price_step + direction_step)

\* _calculate_momentum_score (scoring_engine.py:119-150)
calculate_momentum_score(frame) ==
    IF frame.n < MinBars THEN 500
    ELSE LET rsi_step ==
                 IF frame.indicators /\ NotNa(frame.rsi)
                 THEN LET latest_rsi == Val(frame.rsi)
                      IN  IF 40 <= latest_rsi /\ latest_rsi <= 60 THEN 100
                          ELSE IF 30 <= latest_rsi /\ latest_rsi < 40 THEN 50
                          ELSE IF 60 < latest_rsi /\ latest_rsi <= 70 THEN 50
                          ELSE IF latest_rsi < 30 THEN 100
                          ELSE IF latest_rsi > 70 THEN -100
                          ELSE 0
                 ELSE 0
             macd_step ==
                 IF frame.indicators /\ NotNa(frame.macd_hist)
                 THEN (IF Val(frame.macd_hist) > 0 THEN 50 ELSE -50)
                 ELSE 0
         IN  Clamp10(500 + rsi_step + macd_step)

\* sign of (a - b) / b in floating point: +-inf keeps the sign of a - b when
\* b is 0, and 0 / 0 is NaN (no sign, written 0); prices are not negative
ChangeSign(a, b) ==
    IF a > b THEN 1 ELSE IF a < b THEN -1 ELSE 0

\* the volume score without the `if prev["volume"] > 0` guard: the change
\* from a previous volume of 0 is then +inf, -inf or NaN
VolumeScoreUnguarded(frame) ==
    IF frame.n < MinBars THEN 500
    ELSE IF NotNa(frame.close) /\ NotNa(frame.prev_close)
            /\ NotNa(frame.volume) /\ NotNa(frame.prev_volume)
    THEN LET price_change == ChangeSign(Val(frame.close), Val(frame.prev_close))
             volume_change == ChangeSign(Val(frame.volume), Val(frame.prev_volume))
             step == IF price_change > 0 /\ volume_change > 0 THEN 150
                     ELSE IF price_change < 0 /\ volume_change < 0 THEN -50
                     ELSE IF price_change > 0 /\ volume_change < 0 THEN 50
                     ELSE IF price_change < 0 /\ volume_change > 0 THEN -100
                     ELSE 0
         IN  Clamp10(500 + step)
    ELSE Clamp10(500)

\* _calculate_volume_score (scoring_engine.py:152-187)
calculate_volume_score(frame) ==
    IF frame.n < MinBars THEN 500
    ELSE IF NotNa(frame.close) /\ NotNa(frame.prev_close)
            /\ NotNa(frame.volume) /\ NotNa(frame.prev_volume)
    THEN LET price_change == ChangeSign(Val(frame.close), Val(frame.prev_close))
             volume_change == IF Val(frame.prev_volume) > 0
                              THEN ChangeSign(Val(frame.volume), Val(frame.prev_volume))
                              ELSE 0
             step == IF price_change > 0 /\ volume_change > 0 THEN 150
                     ELSE IF price_change < 0 /\ volume_change < 0 THEN -50
                     ELSE IF price_change > 0 /\ volume_change < 0 THEN 50
                     ELSE IF price_change < 0 /\ volume_change > 0 THEN -100
                     ELSE 0
         IN  Clamp10(500 + step)
    ELSE Clamp10(500)

\* What a collaborator call gives: [ok |-> FALSE] when it raises, otherwise
\* [ok |-> TRUE, ...] with the data.
Failed == [ok |-> FALSE]

NoComponents == [c \in {} |-> 0]    \* the empty dict {}

\* the three sub-scores added up with the weights left out
TechnicalScoreUnweighted(candles) ==
    IF ~candles.ok THEN [score |-> 500, components |-> NoComponents]
    ELSE IF candles.frame.n = 0 THEN [score |-> 500, components |-> NoComponents]
    ELSE LET trend_score == calculate_trend_score(candles.frame)
             momentum_score == calculate_momentum_score(candles.frame)
             volume_score == calculate_volume_score(candles.frame)
         IN  [score |-> trend_score + momentum_score + volume_score,
              components |-> [trend |-> trend_score, momentum |-> momentum_score,
                              volume |-> volume_score]]

\* calculate_technical_score (scoring_engine.py:44-83): candles is the
\* outcome of provider.get_stock_candlesticks
calculate_technical_score(candles) ==
    IF ~candles.ok THEN [score |-> 500, components |-> NoComponents]
    ELSE IF candles.frame.n = 0 THEN [score |-> 500, components |-> NoComponents]
    ELSE LET trend_score == calculate_trend_score(candles.frame)
             momentum_score == calculate_momentum_score(candles.frame)
             volume_score == calculate_volume_score(candles.frame)
             \* weights 0.4, 0.3, 0.3 (line 34); the sum is in thousandths
             overall == trend_score * 4 + momentum_score * 3 + volume_score * 3
         IN  [score |-> RoundHalfEven(overall, 10),
              components |-> [trend |-> trend_score, momentum |-> momentum_score,
                              volume |-> volume_score]]

\* the valuation score with the lower cuts taken inclusively (pe <= 15,
\* pb <= 1.5)
ValuationScoreInclusive(financial) ==
    LET pe == financial.pe
        pb == financial.pb
        pe_step == IF NotNa(pe)
                   THEN (IF Val(pe) <= 15 THEN 200
                         ELSE IF Val(pe) < 30 THEN 100
                         ELSE IF Val(pe) > 50 THEN -100
                         ELSE 0)
                   ELSE 0
        pb_step == IF NotNa(pb)
                   THEN (IF Val(pb) <= 15 THEN 100
                         ELSE IF Val(pb) < 30 THEN 50
                         ELSE IF Val(pb) > 50 THEN -100
                         ELSE 0)
                   ELSE 0
    IN  Clamp10(500 + pe_step + pb_step)

\* _calculate_valuation_score (scoring_engine.py:227-252); pe as a whole
\* number, pb in tenths
calculate_valuation_score(financial) ==
    LET pe == financial.pe
        pb == financial.pb
        pe_step == IF NotNa(pe)
                   THEN (IF Val(pe) < 15 THEN 200
                         ELSE IF Val(pe) < 30 THEN 100
                         ELSE IF Val(pe) > 50 THEN -100
                         ELSE 0)
                   ELSE 0
        pb_step == IF NotNa(pb)
                   THEN (IF Val(pb) < 15 THEN 100
                         ELSE IF Val(pb) < 30 THEN 50
                         ELSE IF Val(pb) > 50 THEN -100
                         ELSE 0)
                   ELSE 0
    IN  Clamp10(500 + pe_step + pb_step)

\* _calculate_growth_score, _calculate_quality_score (scoring_engine.py:254-264)
calculate_growth_score(financial) == 500
calculate_quality_score(financial) == 500

\* the fundamental score with the weights of valuation and growth swapped
FundamentalScoreSwappedWeights(summary) ==
    IF ~summary.ok THEN [score |-> 500, components |-> NoComponents]
    ELSE LET valuation_score == calculate_valuation_score(summary.financial)
             growth_score == calculate_growth_score(summary.financial)
             quality_score == calculate_quality_score(summary.financial)
             overall == valuation_score * 4 + growth_score * 3 + quality_score * 3
         IN  [score |-> RoundHalfEven(overall, 10),
              components |-> [valuation |-> valuation_score, growth |-> growth_score,
                              quality |-> quality_score]]

\* calculate_fundamental_score (scoring_engine.py:189-225): summary is the
\* outcome of provider.get_stock_financial_summary
calculate_fundamental_score(summary) ==
    IF ~summary.ok THEN [score |-> 500, components |-> NoComponents]
    ELSE LET valuation_score == calculate_valuation_score(summary.financial)
             growth_score == calculate_growth_score(summary.financial)
             quality_score == calculate_quality_score(summary.financial)
             \* weights 0.3, 0.4, 0.3 (line 39)
             overall == valuation_score * 3 + growth_score * 4 + quality_score * 3
         IN  [score |-> RoundHalfEven(overall, 10),
              components |-> [valuation |-> valuation_score, growth |-> growth_score,
                              quality |-> quality_score]]

\* the overall score computed afresh whatever the caller supplied
OverallScoreRecomputes(technical_score, fundamental_score, candles, summary) ==
    LET technical == calculate_technical_score(candles).score
        fundamental == calculate_fundamental_score(summary).score
        overall == technical * 6 + fundamental * 4
    IN  [overall_score |-> RoundHalfEven(overall, 10),
         technical_score |-> technical,
         fundamental_score |-> fundamental]

\* calculate_overall_score (scoring_engine.py:266-302): technical_score and
\* fundamental_score are the optional arguments (Null when not given)
calculate_overall_score(technical_score, fundamental_score, candles, summary) ==
    LET technical == IF technical_score = Null
                     THEN calculate_technical_score(candles).score
                     ELSE Val(technical_score)
        fundamental == IF fundamental_score = Null
                       THEN calculate_fundamental_score(summary).score
                       ELSE Val(fundamental_score)
        \* weights 0.6, 0.4 (line 42)
        overall == technical * 6 + fundamental * 4
    IN  [overall_score |-> RoundHalfEven(overall, 10),
         technical_score |-> technical,
         fundamental_score |-> fundamental]

(***************************************************************************)
(* Variables a specification does not use stay at these values.            *)
(***************************************************************************)
IdleBatch ==
    /\ entry = None /\ symbols = <<>> /\ i = 0
    /\ buy_list = <<>> /\ hold_list = <<>> /\ sell_list = <<>>
    /\ dropped = <<>> /\ spots = <<>> /\ group_result = None
IdleSignal == signals = <<>> /\ overall_score = None /\ recommendation = None
IdleLevels == df = <<>> /\ window = 0 /\ scan_result = None /\ key_levels = None
IdleDetect == closes = <<>> /\ patterns = None
IdleScore  == call = None /\ score_result = None /\ fetched = None
IdleScan   == answers = None /\ runs = <<>>
IdleEvents == bars = None /\ events = None
IdleFrame  == caller_df = None /\ df_before = None /\ work_df = None
IdleRetry  == /\ retry_times = None /\ attempt = None /\ fetch_log = None
              /\ sleeps = None /\ retry_result = None
IdleRest   == IdleScan /\ IdleEvents /\ IdleFrame /\ IdleRetry

(***************************************************************************)
(* SpecSignal: one pattern list is scored and turned into a                *)
(* recommendation, as analyze_stock does at signal_generator.py:54-58.     *)
(***************************************************************************)
\* strengths of pattern events: the data model allows [-10, 10]; the values
\* kept are the ends, the detector's +-8, and both sides of the +-3 cut
StrengthValues == {-10, -8, -4, -3, 0, 3, 4, 8, 10}
Events == {[type |-> "pattern", strength |-> s] : s \in StrengthValues}
PatternLists == UNION {[1..k -> Events] : k \in 0..MaxEvents}

InitSignal ==
    /\ pc = "signal_start"
    /\ signals \in PatternLists
    /\ overall_score = None /\ recommendation = None
    /\ IdleBatch /\ IdleLevels /\ IdleDetect /\ IdleScore /\ IdleRest

CalculateSignalScore ==
    /\ pc = "signal_start"
    /\ overall_score' = calculate_signal_score(signals)
    /\ pc' = "scored"
    /\ UNCHANGED <<signals, recommendation, batchVars, levelVars, detectVars, scoreVars, restVars>>

GenerateRecommendation ==
    /\ pc = "scored"
    /\ recommendation' = generate_recommendation(overall_score, signals)
    /\ pc' = "recommended"
    /\ UNCHANGED <<signals, overall_score, batchVars, levelVars, detectVars, scoreVars, restVars>>

NextSignal == CalculateSignalScore \/ GenerateRecommendation

SpecSignal == InitSignal /\ [][NextSignal]_vars

(***************************************************************************)
(* SpecDetected: as SpecSignal, on the pattern lists PatternDetector can   *)
(* produce.  The detectors emit strength +-8 (MA cross,                    *)
(* pattern_detector.py:135, 143), +-6 (MACD cross, 160, 167), +-7 (RSI     *)
(* 191, 199; Bollinger 239, 246; volume breakout +7, 224) and +-5          *)
(* (candlestick patterns, 283, 291), and nothing else.                     *)
(***************************************************************************)
DetectorStrengths == {-8, -7, -6, -5, 5, 6, 7, 8}
DetectorEvents == {[type |-> "pattern", strength |-> s] : s \in DetectorStrengths}
DetectedLists == UNION {[1..k -> DetectorEvents] : k \in 0..MaxEvents}

InitDetected ==
    /\ pc = "signal_start"
    /\ signals \in DetectedLists
    /\ overall_score = None /\ recommendation = None
    /\ IdleBatch /\ IdleLevels /\ IdleDetect /\ IdleScore /\ IdleRest

SpecDetected == InitDetected /\ [][NextSignal]_vars

(***************************************************************************)
(* SpecLevels: a candle series and a quote price go through                *)
(* get_support_resistance (as scan_stock does, signal_scanner.py:55-66)    *)
(* and the scan result through _calculate_key_levels (as analyze_stock     *)
(* does, signal_generator.py:61).  The window is the function's            *)
(* parameter; it is drawn with the series so that series both shorter and  *)
(* longer than the window occur.                                           *)
(***************************************************************************)
\* bars in mills: after round(v, 2) the lows are 0.99, 1.00, 1.00, 1.01,
\* 1.02 (1.025 is a tie) and the highs 1.01, 1.02, 1.02, 1.03, 1.04
BarValues ==
    {[low |-> 994, high |-> 1014], [low |-> 996, high |-> 1016],
     [low |-> 1004, high |-> 1024], [low |-> 1010, high |-> 1030],
     [low |-> 1025, high |-> 1045]}
Frames == UNION {[1..k -> BarValues] : k \in 0..MaxBars}
\* quote prices in mills: null, zero, a tie of the formatting, and one other
PriceValues == {Null, Some(0), Some(1005), Some(1036)}

InitLevels ==
    /\ pc = "levels_start"
    /\ df \in Frames
    /\ window \in 1..MaxBars
    /\ scan_result \in {[price |-> q] : q \in PriceValues}
    /\ key_levels = None
    /\ IdleBatch /\ IdleSignal /\ IdleDetect /\ IdleScore /\ IdleRest

GetSupportResistance ==
    /\ pc = "levels_start"
    /\ LET levels == get_support_resistance(df, window)
       IN  scan_result' = [price |-> scan_result.price,
                           support_levels |-> levels.support_levels,
                           resistance_levels |-> levels.resistance_levels]
    /\ pc' = "levels_found"
    /\ UNCHANGED <<df, window, key_levels, batchVars, signalVars, detectVars, scoreVars, restVars>>

CalculateKeyLevels ==
    /\ pc = "levels_found"
    /\ IF KeyLevelsRaises(scan_result)
       THEN pc' = "levels_raised" /\ UNCHANGED key_levels
       ELSE pc' = "levels_done" /\ key_levels' = calculate_key_levels(scan_result)
    /\ UNCHANGED <<df, window, scan_result, batchVars, signalVars, detectVars, scoreVars, restVars>>

NextLevels == GetSupportResistance \/ CalculateKeyLevels

SpecLevels == InitLevels /\ [][NextLevels]_vars

(***************************************************************************)
(* Spec: the batch operations.                                             *)
(*                                                                         *)
(* generate_group_signals (signal_generator.py:78-114) runs analyze_stock  *)
(* (37-76) on each symbol in turn; analyze_stock runs scan_stock           *)
(* (signal_scanner.py:30-69).  analyze_group (group_analyzer.py:43-75)     *)
(* calls generate_group_signals and then its own passes over the symbols.  *)
(*                                                                         *)
(* The data collaborator's answers for one symbol are drawn when the loop  *)
(* reaches it: the candle fetch raises, returns an empty series, or        *)
(* returns a series (seen through what detect_patterns and                 *)
(* get_support_resistance return on it); the quote fetch raises or returns *)
(* a quote whose price and change_pct may be null.  The quote is kept in   *)
(* `spots`: the later passes of analyze_group fetch it again and are given *)
(* the same snapshot.                                                      *)
(***************************************************************************)
Event(s) == [type |-> "pattern", strength |-> s]

\* pattern lists the detector returns in a batch: none, one bullish or one
\* bearish event of two sizes (scores 5.0, 10.0, 7.5, 0.0, 2.5)
GroupPatternLists == {<<>>, <<Event(8)>>, <<Event(4)>>, <<Event(-8)>>, <<Event(-4)>>}

\* levels of a series long enough for the default window
GroupLevels == [support_levels |-> <<100, 101, 102>>, resistance_levels |-> <<102, 103, 104>>]

\* What the candle side gives for one symbol: whether the fetch returned
\* (ok) and the series is empty, and, seen through the detector, whether
\* detect_patterns and get_support_resistance return on it (detect_ok,
\* levels_ok) and what.
Candles(ok, empty, detect_ok, patterns_found, levels_ok, levels) ==
    [ok |-> ok, empty |-> empty, detect_ok |-> detect_ok, patterns |-> patterns_found,
     levels_ok |-> levels_ok, levels |-> levels]

CandleAnswers ==
    {Candles(FALSE, FALSE, TRUE, <<>>, TRUE, GroupLevels),
     Candles(TRUE, TRUE, TRUE, <<>>, TRUE, GroupLevels)}
    \cup {Candles(TRUE, FALSE, TRUE, l, TRUE, GroupLevels) : l \in GroupPatternLists}

\* a failed fetch, a quote with null price and change (a suspended stock),
\* a quote at 1.036 up 1.5%
QuoteAnswers ==
    {[ok |-> FALSE, price |-> Null, change_pct |-> Null],
     [ok |-> TRUE, price |-> Null, change_pct |-> Null],
     [ok |-> TRUE, price |-> Some(1036), change_pct |-> Some(150)]}

\* a failed fetch, and PE 10 with PB 1.0
FinancialAnswers ==
    {Failed, [ok |-> TRUE, financial |-> [pe |-> Some(10), pb |-> Some(10)]]}

IsError(result) == "error" \in DOMAIN result

\* scan_stock with the empty-series return (lines 46-47) left out
ScanStockEmptyPasses(symbol, candles, quote) ==
    IF ~candles.ok THEN [symbol |-> symbol, error |-> "candles_failed"]
    ELSE IF ~quote.ok THEN [symbol |-> symbol, error |-> "quote_failed"]
    ELSE [symbol |-> symbol,
          price |-> quote.price,
          change_pct |-> quote.change_pct,
          patterns |-> <<>>,
          support_levels |-> <<>>,
          resistance_levels |-> <<>>]

\* SignalScanner.scan_stock (signal_scanner.py:30-69): every step is inside
\* the try, and an exception of any of them becomes the error record
scan_stock(symbol, candles, quote) ==
    IF ~candles.ok THEN [symbol |-> symbol, error |-> "candles_failed"]
    ELSE IF candles.empty THEN [symbol |-> symbol, error |-> "no_data"]
    ELSE IF ~quote.ok THEN [symbol |-> symbol, error |-> "quote_failed"]
    ELSE IF ~candles.detect_ok THEN [symbol |-> symbol, error |-> "detect_failed"]
    ELSE IF ~candles.levels_ok THEN [symbol |-> symbol, error |-> "levels_failed"]
    ELSE [symbol |-> symbol,
          price |-> quote.price,
          change_pct |-> quote.change_pct,
          patterns |-> candles.patterns,
          support_levels |-> candles.levels.support_levels,
          resistance_levels |-> candles.levels.resistance_levels]

\* analyze_stock raises when _calculate_key_levels does (line 61)
AnalyzeStockRaises(scan) == ~IsError(scan) /\ KeyLevelsRaises(scan)

\* analyze_stock with a score that drifts with the number of calls the
\* generator has served
AnalyzeStockCounting(scan) ==
    IF IsError(scan) THEN scan
    ELSE LET sigs == scan.patterns
             score == Min(1000, calculate_signal_score(sigs) + Len(runs))
             rec == generate_recommendation(score, sigs)
             levels == calculate_key_levels(scan)
         IN  [symbol |-> scan.symbol,
              price |-> scan.price,
              change_pct |-> scan.change_pct,
              signals |-> sigs,
              overall_score |-> score,
              recommendation |-> rec.action,
              risk_level |-> rec.risk_level,
              reason |-> rec.reason,
              entry_zone |-> levels.entry_zone,
              target_zone |-> levels.target_zone,
              stop_loss |-> levels.stop_loss]

\* TradingSignalGenerator.analyze_stock (signal_generator.py:37-76), when
\* it returns
analyze_stock(scan) ==
    IF IsError(scan) THEN scan
    ELSE LET sigs == scan.patterns
             score == calculate_signal_score(sigs)
             rec == generate_recommendation(score, sigs)
             levels == calculate_key_levels(scan)
         IN  [symbol |-> scan.symbol,
              price |-> scan.price,
              change_pct |-> scan.change_pct,
              signals |-> sigs,
              overall_score |-> score,
              recommendation |-> rec.action,
              risk_level |-> rec.risk_level,
              reason |-> rec.reason,
              entry_zone |-> levels.entry_zone,
              target_zone |-> levels.target_zone,
              stop_loss |-> levels.stop_loss]

\* the bucket a result goes to (signal_generator.py:98-105)
BucketNoElse(result) ==
    IF result.recommendation = "buy" THEN "buy"
    ELSE IF result.recommendation = "sell" THEN "sell"
    ELSE "none"

Bucket(result) ==
    IF result.recommendation = "buy" THEN "buy"
    ELSE IF result.recommendation = "hold" THEN "hold"
    ELSE "sell"

\* Python's stable sort: the order of the indices of `keys`, ascending or
\* (reverse=True) descending, equal keys staying in their original order
RECURSIVE InsertIndex(_, _, _, _)
InsertIndex(order, j, keys, reverse) ==
    IF order = <<>> THEN <<j>>
    ELSE IF (reverse /\ keys[Head(order)] >= keys[j])
            \/ (~reverse /\ keys[Head(order)] <= keys[j])
    THEN <<Head(order)>> \o InsertIndex(Tail(order), j, keys, reverse)
    ELSE <<j>> \o order

RECURSIVE StableOrder(_, _, _)
StableOrder(n, keys, reverse) ==
    IF n = 0 THEN <<>>
    ELSE InsertIndex(StableOrder(n - 1, keys, reverse), n, keys, reverse)

SortByKey(list, keys, reverse) ==
    LET order == StableOrder(Len(list), keys, reverse)
    IN  [k \in 1..Len(list) |-> list[order[k]]]

\* the sort below with the reverse flag dropped
SortByScoreAscending(list, reverse) ==
    SortByKey(list, [k \in 1..Len(list) |-> list[k].overall_score], FALSE)

\* sorted(list, key=lambda x: x["overall_score"], reverse=...)
SortByScore(list, reverse) ==
    SortByKey(list, [k \in 1..Len(list) |-> list[k].overall_score], reverse)

\* _generate_group_summary (signal_generator.py:217-242).  The text is
\* <<kind>> or <<kind, len(buy_list)>>.  buy_ratio = len(buy) / total * 100
\* is compared here as an exact fraction; the source computes it in binary
\* floating point, which gives the same three comparisons for every total
\* up to 60 (1 / 10 * 100 is 10.0 and 3 / 10 * 100 is 30.0 there).
GroupSummaryAtLeast(buy, hold, sell) ==
    LET total == Len(buy) + Len(hold) + Len(sell)
    IN  IF total = 0 THEN <<"no_results">>
        ELSE IF Len(buy) * 100 >= 50 * total THEN <<"many_opportunities", Len(buy)>>
        ELSE IF Len(buy) * 100 >= 30 * total THEN <<"moderately_bullish", Len(buy)>>
        ELSE IF Len(buy) * 100 >= 10 * total THEN <<"mixed", Len(buy)>>
        ELSE <<"weak_caution">>

generate_group_summary(buy, hold, sell) ==
    LET total == Len(buy) + Len(hold) + Len(sell)
    IN  IF total = 0 THEN <<"no_results">>
        ELSE IF Len(buy) * 100 > 50 * total THEN <<"many_opportunities", Len(buy)>>
        ELSE IF Len(buy) * 100 > 30 * total THEN <<"moderately_bullish", Len(buy)>>
        ELSE IF Len(buy) * 100 > 10 * total THEN <<"mixed", Len(buy)>>
        ELSE <<"weak_caution">>

InitBatch ==
    /\ pc = "loop"
    /\ entry \in {"generate_group_signals", "analyze_group"}
    /\ \E n \in 0..MaxSymbols : symbols = [k \in 1..n |-> k]
    /\ i = 1
    /\ buy_list = <<>> /\ hold_list = <<>> /\ sell_list = <<>>
    /\ dropped = <<>> /\ spots = <<>> /\ group_result = None
    /\ IdleSignal /\ IdleLevels /\ IdleDetect /\ IdleScore /\ IdleRest

\* one pass of the loop at signal_generator.py:92-105; an exception of
\* analyze_stock leaves the loop and the batch
AnalyzeNextSymbol ==
    /\ pc = "loop"
    /\ i <= Len(symbols)
    /\ \E candles \in CandleAnswers, quote \in QuoteAnswers :
         LET scan == scan_stock(symbols[i], candles, quote)
         IN  /\ spots' = Append(spots, quote)
             /\ IF AnalyzeStockRaises(scan)
                THEN /\ pc' = "batch_raised"
                     /\ UNCHANGED <<i, buy_list, hold_list, sell_list, dropped>>
                ELSE LET result == analyze_stock(scan)
                     IN  /\ pc' = "loop"
                         /\ i' = i + 1
                         /\ IF IsError(result)
                            THEN /\ dropped' = Append(dropped, result)
                                 /\ UNCHANGED <<buy_list, hold_list, sell_list>>
                            ELSE /\ UNCHANGED dropped
                                 /\ buy_list' = IF Bucket(result) = "buy"
                                                THEN Append(buy_list, result) ELSE buy_list
                                 /\ hold_list' = IF Bucket(result) = "hold"
                                                 THEN Append(hold_list, result) ELSE hold_list
                                 /\ sell_list' = IF Bucket(result) = "sell"
                                                 THEN Append(sell_list, result) ELSE sell_list
    /\ UNCHANGED <<entry, symbols, group_result, signalVars, levelVars, detectVars, scoreVars, restVars>>

\* signal_generator.py:107-114: the sorts, the summary, the return
ReturnGroupSignals ==
    /\ pc = "loop"
    /\ i > Len(symbols)
    /\ buy_list' = SortByScore(buy_list, TRUE)
    /\ sell_list' = SortByScore(sell_list, FALSE)
    /\ group_result' = [buy |-> buy_list', hold |-> hold_list, sell |-> sell_list',
                        summary |-> generate_group_summary(buy_list', hold_list, sell_list')]
    /\ pc' = IF entry = "analyze_group" THEN "signals_returned" ELSE "done"
    /\ UNCHANGED <<entry, symbols, i, hold_list, dropped, spots,
                   signalVars, levelVars, detectVars, scoreVars, restVars>>

\* list[:n]
FirstN(list, n) == IF Len(list) <= n THEN list ELSE SubSeq(list, 1, n)

\* the elements of a sequence that satisfy keep[k], in order
RECURSIVE Kept(_, _)
Kept(list, keep) ==
    IF list = <<>> THEN <<>>
    ELSE Kept(SubSeq(list, 1, Len(list) - 1), keep)
         \o (IF keep[Len(list)] THEN <<list[Len(list)]>> ELSE <<>>)

\* total_change over the symbols in `valid`, first n symbols
RECURSIVE SumChange(_, _, _)
SumChange(quotes, valid, n) ==
    IF n = 0 THEN 0
    ELSE SumChange(quotes, valid, n - 1)
         + (IF n \in valid THEN Val(quotes[n].change_pct) ELSE 0)

\* _calculate_group_summary (group_analyzer.py:77-115): a failed fetch and a
\* null change_pct (None > 0 is a TypeError) are both caught, and the
\* symbol is left out of the counts
calculate_group_summary(syms, quotes) ==
    LET valid == {k \in DOMAIN syms : quotes[k].ok /\ quotes[k].change_pct # Null}
        up == {k \in valid : Val(quotes[k].change_pct) > 0}
        down == {k \in valid : Val(quotes[k].change_pct) < 0}
        total_change == SumChange(quotes, valid, Len(syms))
    IN  [up_count |-> Cardinality(up),
         down_count |-> Cardinality(down),
         avg_change |-> IF valid # {} THEN RoundHalfEven(total_change, Cardinality(valid))
                        ELSE 0,
         total_count |-> Len(syms)]

\* the performers list of _get_top_performers and _get_laggards
\* (group_analyzer.py:128-140, 158-170)
Performers(syms, quotes) ==
    Kept([k \in DOMAIN syms |->
              [symbol |-> syms[k], price |-> quotes[k].price,
               change_pct |-> quotes[k].change_pct]],
         [k \in DOMAIN syms |-> quotes[k].ok])

\* performers.sort(key=change_pct) (lines 143, 173) is outside the try: it
\* raises TypeError as soon as two entries are compared and one key is None
PerformerSortRaises(performers) ==
    /\ Len(performers) >= 2
    /\ \E k \in DOMAIN performers : performers[k].change_pct = Null

SortPerformers(performers, reverse) ==
    IF Len(performers) < 2 THEN performers
    ELSE SortByKey(performers,
                   [k \in DOMAIN performers |-> Val(performers[k].change_pct)], reverse)

\* _calculate_fundamental_scores (group_analyzer.py:177-209)
calculate_fundamental_scores(syms, quotes, summaries) ==
    LET scores == Kept([k \in DOMAIN syms |->
                            LET result == calculate_fundamental_score(summaries[k])
                            IN  [symbol |-> syms[k], score |-> result.score,
                                 components |-> result.components]],
                       [k \in DOMAIN syms |-> quotes[k].ok])
    IN  SortByKey(scores, [k \in DOMAIN scores |-> scores[k].score], TRUE)

\* group_analyzer.py:57-75: the passes of analyze_group that follow
\* generate_group_signals
AnalyzeGroupPasses ==
    /\ pc = "signals_returned"
    /\ \E summaries \in [DOMAIN symbols -> FinancialAnswers] :
         LET performers == Performers(symbols, spots)
         IN  IF PerformerSortRaises(performers)
             THEN pc' = "batch_raised" /\ UNCHANGED group_result
             ELSE /\ pc' = "done"
                  /\ group_result' =
                         [stock_count |-> Len(symbols),
                          summary |-> calculate_group_summary(symbols, spots),
                          signals |-> group_result,
                          top_performers |-> FirstN(SortPerformers(performers, TRUE), 5),
                          laggards |-> FirstN(SortPerformers(performers, FALSE), 5),
                          fundamental_scores |->
                              calculate_fundamental_scores(symbols, spots, summaries)]
    /\ UNCHANGED <<entry, symbols, i, buy_list, hold_list, sell_list, dropped, spots,
                   signalVars, levelVars, detectVars, scoreVars, restVars>>

Next == AnalyzeNextSymbol \/ ReturnGroupSignals \/ AnalyzeGroupPasses

Spec == InitBatch /\ [][Next]_vars

(***************************************************************************)
(* SpecDetect: PatternDetector.detect_patterns (pattern_detector.py:37-71) *)
(* on one close series.                                                    *)
(*                                                                         *)
(* The moving-average periods are configuration (line 32, default          *)
(* [5, 10, 20, 60]); the model runs the detector configured with three     *)
(* short periods, so that series shorter than, equal to and longer than    *)
(* the largest period occur.  Closes are whole numbers, for which the      *)
(* averages that are equal are equal in floating point too.                *)
(***************************************************************************)
ma_periods == <<2, 3, 5>>

MaxCloses == 6

CloseValues == {10, 11, 12}
CloseSeries == UNION {[1..k -> CloseValues] : k \in 0..MaxCloses}

RECURSIVE SumCloses(_, _, _)
SumCloses(c, from, to) ==
    IF from > to THEN 0 ELSE c[to] + SumCloses(c, from, to - 1)

\* talib.MA(close, timeperiod=period) at bar t (pattern_detector.py:78-79):
\* null on the first period-1 bars, afterwards the mean of the last
\* `period` closes, kept here as the pair <<sum, period>>
MA(c, period, t) ==
    IF t < period THEN Null ELSE Some(<<SumCloses(c, t - period + 1, t), period>>)

\* comparisons of two cells as Python makes them: false when one is NaN
MaLt(x, y) == x # Null /\ y # Null /\ Val(x)[1] * Val(y)[2] < Val(y)[1] * Val(x)[2]
MaLe(x, y) == x # Null /\ y # Null /\ Val(x)[1] * Val(y)[2] <= Val(y)[1] * Val(x)[2]
MaGt(x, y) == MaLt(y, x)
MaGe(x, y) == MaLe(y, x)

CrossEvent(type, fast_period, slow_period, strength) ==
    [type |-> type, fast |-> fast_period, slow |-> slow_period, strength |-> strength]

\* the loop body below with the prior bar compared strictly
CrossOfPairStrict(c, k) ==
    LET fast_period == ma_periods[k]
        slow_period == ma_periods[k + 1]
        t == Len(c)
        prev_fast == MA(c, fast_period, t - 1)
        prev_slow == MA(c, slow_period, t - 1)
        latest_fast == MA(c, fast_period, t)
        latest_slow == MA(c, slow_period, t)
    IN  IF MaLt(prev_fast, prev_slow) /\ MaGt(latest_fast, latest_slow)
        THEN <<CrossEvent("golden_cross", fast_period, slow_period, 8)>>
        ELSE IF MaGt(prev_fast, prev_slow) /\ MaLt(latest_fast, latest_slow)
        THEN <<CrossEvent("death_cross", fast_period, slow_period, -8)>>
        ELSE <<>>

\* one pass of the loop at pattern_detector.py:122-145, for the pair that
\* starts at index k of ma_periods
CrossOfPair(c, k) ==
    LET fast_period == ma_periods[k]
        slow_period == ma_periods[k + 1]
        t == Len(c)
        prev_fast == MA(c, fast_period, t - 1)
        prev_slow == MA(c, slow_period, t - 1)
        latest_fast == MA(c, fast_period, t)
        latest_slow == MA(c, slow_period, t)
    IN  IF MaLe(prev_fast, prev_slow) /\ MaGt(latest_fast, latest_slow)
        THEN <<CrossEvent("golden_cross", fast_period, slow_period, 8)>>
        ELSE IF MaGe(prev_fast, prev_slow) /\ MaLt(latest_fast, latest_slow)
        THEN <<CrossEvent("death_cross", fast_period, slow_period, -8)>>
        ELSE <<>>

RECURSIVE CrossesUpTo(_, _)
CrossesUpTo(c, k) ==
    IF k = 0 THEN <<>> ELSE CrossesUpTo(c, k - 1) \o CrossOfPair(c, k)

\* the moving-average part of _detect_crosses (pattern_detector.py:111-145)
detect_crosses(c) ==
    IF Len(c) < 2 THEN <<>> ELSE CrossesUpTo(c, Len(ma_periods) - 1)

\* What the rest of the detector appends after the moving-average crosses:
\* the MACD cross (147-169), RSI (173-203), breakouts (205-250) and candle
\* patterns (252-297).  They read columns the model does not carry (open,
\* high, low, volume, the long warm-up indicators), so their outcome is
\* drawn; every type they emit differs from golden_cross and death_cross.
OtherEvents ==
    {<<>>,
     <<[type |-> "macd_golden_cross", strength |-> 6]>>,
     <<[type |-> "rsi_overbought", strength |-> -7]>>,
     <<[type |-> "volume_breakout", strength |-> 7],
       [type |-> "bearish_engulfing", strength |-> -5]>>}

\* _calculate_indicators (pattern_detector.py:73-109) runs before the
\* length guard of detect_patterns.  On a series with rows it returns the
\* copy with the indicator columns (null during warm-up).  On a frame
\* without rows, df["close"] raises KeyError if the frame has no columns,
\* and with columns the indicator library, by its version, either returns
\* empty arrays or rejects an input that holds no number.
IndicatorOutcomes(c) ==
    IF Len(c) = 0 THEN {"returns", "raises"} ELSE {"returns"}

\* detect_patterns (pattern_detector.py:37-71) once the indicators are there
detect_patterns(c, others) ==
    IF Len(c) = 0 \/ Len(c) < ma_periods[Len(ma_periods)] THEN <<>>
    ELSE detect_crosses(c) \o others

InitDetect ==
    /\ pc = "detect_start"
    /\ closes \in CloseSeries
    /\ patterns = None
    /\ IdleBatch /\ IdleSignal /\ IdleLevels /\ IdleScore /\ IdleRest

DetectPatterns ==
    /\ pc = "detect_start"
    /\ \/ /\ "raises" \in IndicatorOutcomes(closes)
          /\ pc' = "detect_raised"
          /\ UNCHANGED patterns
       \/ /\ "returns" \in IndicatorOutcomes(closes)
          /\ \E others \in OtherEvents : patterns' = detect_patterns(closes, others)
          /\ pc' = "detected"
    /\ UNCHANGED <<closes, batchVars, signalVars, levelVars, scoreVars, restVars>>

NextDetect == DetectPatterns

SpecDetect == InitDetect /\ [][NextDetect]_vars

\* _render_builtin_template lists a fundamental score under the heading
\* "score >= 7" when it is at least this (group_reporter.py:192)
high_score_cut == 700

(***************************************************************************)
(* The data-source fetches a ScoringEngine call makes:                     *)
(* calculate_technical_score fetches the candles (line 56),                *)
(* calculate_fundamental_score the financial summary (line 201), and       *)
(* calculate_overall_score calls each of them only for a score the caller  *)
(* left out (lines 284-290).  The sub-score methods fetch nothing.         *)
(***************************************************************************)
Fetches(c) ==
    IF c.op = "technical" THEN {"candles"}
    ELSE IF c.op = "fundamental" THEN {"summary"}
    ELSE IF c.op = "overall"
    THEN (IF c.technical_score = Null THEN {"candles"} ELSE {})
         \cup (IF c.fundamental_score = Null THEN {"summary"} ELSE {})
    ELSE {}

(***************************************************************************)
(* SpecScore: one call of a ScoringEngine operation (scoring_engine.py).   *)
(* `call` is the operation with its arguments; for the operations that     *)
(* fetch, the arguments are what the data collaborator returns.            *)
(***************************************************************************)
FrameLengths == {0, 1, MinBars - 1, MinBars, MinBars + 1}
PriceCells == {Null, Some(1000), Some(1036)}
VolumeCells == {Null, Some(0), Some(100), Some(200)}
RsiCells == {Null} \cup {Some(v) : v \in {25, 30, 35, 40, 50, 60, 65, 70, 75}}
HistCells == {Null, Some(-1), Some(0), Some(1)}

\* twenty bars closing up, without indicator columns
BaseFrame ==
    [n |-> MinBars, indicators |-> FALSE,
     close |-> Some(1036), volume |-> Some(200),
     ma_5 |-> Null, ma_20 |-> Null, rsi |-> Null, macd_hist |-> Null,
     prev_close |-> Some(1000), prev_volume |-> Some(100), start_close |-> Some(1000)]

TrendFrames ==
    {[BaseFrame EXCEPT !.n = n, !.indicators = b, !.ma_5 = a, !.ma_20 = c,
                       !.close = d, !.start_close = e] :
        n \in FrameLengths, b \in BOOLEAN, a \in PriceCells, c \in PriceCells,
        d \in PriceCells, e \in PriceCells}

MomentumFrames ==
    {[BaseFrame EXCEPT !.n = n, !.indicators = b, !.rsi = r, !.macd_hist = h] :
        n \in FrameLengths, b \in BOOLEAN, r \in RsiCells, h \in HistCells}

VolumeFrames ==
    {[BaseFrame EXCEPT !.n = n, !.close = d, !.prev_close = e,
                       !.volume = v, !.prev_volume = w] :
        n \in FrameLengths, d \in PriceCells, e \in PriceCells \cup {Some(0)},
        v \in VolumeCells, w \in VolumeCells}

CandleOutcomes ==
    {Failed} \cup {[ok |-> TRUE, frame |-> f] :
                      f \in TrendFrames \cup MomentumFrames \cup VolumeFrames}

\* PE as a whole number (a loss gives a negative one), PB in tenths
PeCells == {Null} \cup {Some(v) : v \in {-5, 10, 15, 20, 30, 40, 50, 60}}
PbCells == {Null} \cup {Some(v) : v \in {-3, 10, 15, 20, 30, 40, 50, 60}}
Financials == {[pe |-> a, pb |-> b] : a \in PeCells, b \in PbCells}
SummaryOutcomes == {Failed} \cup {[ok |-> TRUE, financial |-> f] : f \in Financials}

\* the optional score arguments of calculate_overall_score: left out, or a
\* score of the scale
ScoreArguments == {Null, Some(0), Some(455), Some(1000)}

Calls ==
    {[op |-> "trend", frame |-> f] : f \in TrendFrames}
    \cup {[op |-> "momentum", frame |-> f] : f \in MomentumFrames}
    \cup {[op |-> "volume", frame |-> f] : f \in VolumeFrames}
    \cup {[op |-> "technical", candles |-> c] : c \in CandleOutcomes}
    \cup {[op |-> "valuation", financial |-> f] : f \in Financials}
    \cup {[op |-> "fundamental", summary |-> s] : s \in SummaryOutcomes}
    \cup {[op |-> "overall", technical_score |-> t, fundamental_score |-> f,
           candles |-> c, summary |-> s] :
             t \in ScoreArguments, f \in ScoreArguments,
             c \in {Failed} \cup {[ok |-> TRUE, frame |-> g] : g \in MomentumFrames},
             s \in {Failed} \cup {[ok |-> TRUE, financial |-> g] :
                                     g \in {[pe |-> a, pb |-> a] : a \in PeCells}}}

InitScore ==
    /\ pc = "score_start"
    /\ call \in Calls
    /\ score_result = None
    /\ fetched = {}
    /\ IdleBatch /\ IdleSignal /\ IdleLevels /\ IdleDetect /\ IdleRest

Returned(result) ==
    /\ score_result' = result
    /\ fetched' = Fetches(call)
    /\ pc' = "score_done"
    /\ UNCHANGED <<call, batchVars, signalVars, levelVars, detectVars, restVars>>

CalculateTrendScore ==
    pc = "score_start" /\ call.op = "trend"
    /\ Returned(calculate_trend_score(call.frame))

CalculateMomentumScore ==
    pc = "score_start" /\ call.op = "momentum"
    /\ Returned(calculate_momentum_score(call.frame))

CalculateVolumeScore ==
    pc = "score_start" /\ call.op = "volume"
    /\ Returned(calculate_volume_score(call.frame))

CalculateTechnicalScore ==
    pc = "score_start" /\ call.op = "technical"
    /\ Returned(calculate_technical_score(call.candles))

CalculateValuationScore ==
    pc = "score_start" /\ call.op = "valuation"
    /\ Returned(calculate_valuation_score(call.financial))

CalculateFundamentalScore ==
    pc = "score_start" /\ call.op = "fundamental"
    /\ Returned(calculate_fundamental_score(call.summary))

CalculateOverallScore ==
    pc = "score_start" /\ call.op = "overall"
    /\ Returned(calculate_overall_score(call.technical_score, call.fundamental_score,
                                        call.candles, call.summary))

NextScore ==
    \/ CalculateTrendScore
    \/ CalculateMomentumScore
    \/ CalculateVolumeScore
    \/ CalculateTechnicalScore
    \/ CalculateValuationScore
    \/ CalculateFundamentalScore
    \/ CalculateOverallScore

SpecScore == InitScore /\ [][NextScore]_vars

(***************************************************************************)
(* SpecScan: analyze_stock (signal_generator.py:37-76) called several      *)
(* times, in any order, on the symbols of a fixed data snapshot.  The      *)
(* generator, the scanner and the detector keep only what __init__ gave    *)
(* them (configuration and thresholds); no call assigns a field.  The      *)
(* indicator library is a function of the series, so the snapshot fixes    *)
(* what detect_patterns and get_support_resistance return on it.           *)
(***************************************************************************)
MaxRuns == 3

ScanSymbols == {1, 2}

NoLevels == [support_levels |-> <<>>, resistance_levels |-> <<>>]

\* fetch raises; empty series; detector raises; levels raise; a series with
\* no, a bullish or a bearish pattern and with or without levels
ScanCandleAnswers ==
    {Candles(FALSE, FALSE, TRUE, <<>>, TRUE, NoLevels),
     Candles(TRUE, TRUE, TRUE, <<>>, TRUE, NoLevels),
     Candles(TRUE, FALSE, FALSE, <<>>, TRUE, NoLevels),
     Candles(TRUE, FALSE, TRUE, <<>>, FALSE, NoLevels)}
    \cup {Candles(TRUE, FALSE, TRUE, l, TRUE, v) :
             l \in {<<>>, <<Event(8)>>, <<Event(-8)>>}, v \in {GroupLevels, NoLevels}}

\* fetch raises; a quote with price and change_pct each null or not; a
\* quote at price 0
ScanQuoteAnswers ==
    {[ok |-> FALSE, price |-> Null, change_pct |-> Null]}
    \cup {[ok |-> TRUE, price |-> p, change_pct |-> c] :
             p \in {Null, Some(1036)}, c \in {Null, Some(150)}}
    \cup {[ok |-> TRUE, price |-> Some(0), change_pct |-> Some(0)]}

InitScan ==
    /\ pc = "scan_ready"
    /\ answers \in [ScanSymbols -> [candles : ScanCandleAnswers, quote : ScanQuoteAnswers]]
    /\ runs = <<>>
    /\ IdleBatch /\ IdleSignal /\ IdleLevels /\ IdleDetect /\ IdleScore
    /\ IdleEvents /\ IdleFrame /\ IdleRetry

\* one call analyze_stock(symbol)
AnalyzeStock ==
    /\ pc = "scan_ready"
    /\ Len(runs) < MaxRuns
    /\ \E symbol \in ScanSymbols :
         LET scan == scan_stock(symbol, answers[symbol].candles, answers[symbol].quote)
         IN  runs' = Append(runs,
                        IF AnalyzeStockRaises(scan)
                        THEN [symbol |-> symbol, raised |-> TRUE, scan |-> scan,
                              result |-> None]
                        ELSE [symbol |-> symbol, raised |-> FALSE, scan |-> scan,
                              result |-> analyze_stock(scan)])
    /\ UNCHANGED <<pc, answers, batchVars, signalVars, levelVars, detectVars, scoreVars,
                   eventVars, frameVars, retryVars>>

NextScan == AnalyzeStock

SpecScan == InitScan /\ [][NextScan]_vars

(***************************************************************************)
(* SpecEvents: _detect_breakout (pattern_detector.py:205-250) and          *)
(* _detect_overbought_oversold (173-203) on the frame _calculate_indicators*)
(* hands them.  The frame is seen through the cells the two functions      *)
(* read:                                                                   *)
(*   n                        len(df)                                      *)
(*   has_volume, has_rsi, has_bb   whether the columns are there           *)
(*   close, volume, rsi, bb_upper, bb_lower   of the last row              *)
(*   prev_close, prev_volume                  of the row before it         *)
(* each cell a nullable number; RSI in tenths of a point, volumes in       *)
(* lots.  A frame with one row has no previous row, RSI is null until the  *)
(* frame has more rows than its period, the bands until it has as many as  *)
(* theirs.                                                                 *)
(***************************************************************************)
rsi_period == 14
oversold == 300
overbought == 700
bollinger_period == 20

EventOf(type, strength) == [type |-> type, strength |-> strength]

\* the volume part of _detect_breakout without the guard on the previous
\* volume: a division by a zero float gives +inf
VolumeBreakoutUnguarded(b) ==
    IF b.has_volume /\ NotNa(b.volume) /\ NotNa(b.prev_volume)
    THEN LET above == IF Val(b.prev_volume) = 0 THEN Val(b.volume) > 0
                      ELSE 2 * Val(b.volume) > 3 * Val(b.prev_volume)
         IN  IF Gt(b.close, b.prev_close) /\ above
             THEN <<EventOf("volume_breakout", 7)>> ELSE <<>>
    ELSE <<>>

\* pattern_detector.py:214-226; volume_ratio > 1.5 is 2 * latest > 3 * prev
VolumeBreakout(b) ==
    IF b.has_volume /\ NotNa(b.volume) /\ NotNa(b.prev_volume)
    THEN LET above == IF Val(b.prev_volume) > 0
                      THEN 2 * Val(b.volume) > 3 * Val(b.prev_volume)
                      ELSE FALSE     \* volume_ratio = 1
         IN  IF Gt(b.close, b.prev_close) /\ above
             THEN <<EventOf("volume_breakout", 7)>> ELSE <<>>
    ELSE <<>>

\* pattern_detector.py:228-248
BollingerBreakout(b) ==
    IF b.has_bb /\ NotNa(b.bb_upper) /\ NotNa(b.close)
    THEN IF Gt(b.close, b.bb_upper) THEN <<EventOf("bollinger_breakout_upper", 7)>>
         ELSE IF Gt(b.bb_lower, b.close) THEN <<EventOf("bollinger_breakout_lower", -7)>>
         ELSE <<>>
    ELSE <<>>

\* _detect_breakout (pattern_detector.py:205-250)
detect_breakout(b) ==
    IF b.n < 2 THEN <<>> ELSE VolumeBreakout(b) \o BollingerBreakout(b)

\* _detect_overbought_oversold with the cuts taken inclusively
DetectOverboughtOversoldInclusive(b) ==
    IF b.n < 2 \/ ~b.has_rsi THEN <<>>
    ELSE IF b.rsi = Null THEN <<>>
    ELSE IF Val(b.rsi) <= oversold THEN <<EventOf("rsi_oversold", 7)>>
    ELSE IF Val(b.rsi) >= overbought THEN <<EventOf("rsi_overbought", -7)>>
    ELSE <<>>

\* _detect_overbought_oversold (pattern_detector.py:173-203)
detect_overbought_oversold(b) ==
    IF b.n < 2 \/ ~b.has_rsi THEN <<>>
    ELSE IF b.rsi = Null THEN <<>>
    ELSE IF Val(b.rsi) < oversold THEN <<EventOf("rsi_oversold", 7)>>
    ELSE IF Val(b.rsi) > overbought THEN <<EventOf("rsi_overbought", -7)>>
    ELSE <<>>

EventLengths == {1, 2, rsi_period, rsi_period + 1, bollinger_period}
ClosePair == {Null, Some(1000), Some(1036)}
LotCells == {Null, Some(0), Some(100), Some(150), Some(151), Some(200)}
PrevLotCells == {Null, Some(0), Some(100)}
BandCells == {Null, Some(1020), Some(1050)}
RsiTenths == {Null} \cup {Some(v) : v \in {0, 299, 300, 301, 500, 699, 700, 701, 1000}}

\* a frame of twenty rows, flat, every indicator in its neutral zone
QuietBars ==
    [n |-> bollinger_period, has_volume |-> TRUE, has_rsi |-> TRUE, has_bb |-> TRUE,
     close |-> Some(1000), prev_close |-> Some(1000),
     volume |-> Some(100), prev_volume |-> Some(100),
     rsi |-> Some(500), bb_upper |-> Some(1050), bb_lower |-> Some(950)]

\* what the frame's length and columns allow its cells to be
WellFormed(b) ==
    /\ (b.n < 2 => b.prev_close = Null /\ b.prev_volume = Null)
    /\ (~b.has_volume => b.volume = Null /\ b.prev_volume = Null)
    /\ ((b.n <= rsi_period \/ ~b.has_rsi) => b.rsi = Null)
    /\ ((b.n < bollinger_period \/ ~b.has_bb) => b.bb_upper = Null /\ b.bb_lower = Null)

BreakoutBars ==
    {b \in {[QuietBars EXCEPT !.n = n, !.has_volume = hv, !.has_bb = hb,
                              !.close = c, !.prev_close = pcl,
                              !.volume = v, !.prev_volume = pv,
                              !.rsi = IF n <= rsi_period THEN Null ELSE Some(500),
                              !.bb_upper = u,
                              !.bb_lower = IF u = Null THEN Null ELSE Some(1010)] :
               n \in EventLengths, hv \in BOOLEAN, hb \in BOOLEAN,
               c \in ClosePair, pcl \in ClosePair,
               v \in LotCells, pv \in PrevLotCells, u \in BandCells} :
        WellFormed(b)}

RsiBars ==
    {b \in {[QuietBars EXCEPT !.n = n, !.has_rsi = hr, !.rsi = r,
                              !.prev_close = IF n < 2 THEN Null ELSE Some(1000),
                              !.prev_volume = IF n < 2 THEN Null ELSE Some(100),
                              !.bb_upper = IF n < bollinger_period THEN Null ELSE Some(1050),
                              !.bb_lower = IF n < bollinger_period THEN Null ELSE Some(950)] :
               n \in EventLengths, hr \in BOOLEAN, r \in RsiTenths} :
        WellFormed(b)}

InitEvents ==
    /\ pc = "events_start"
    /\ bars \in BreakoutBars \cup RsiBars
    /\ events = None
    /\ IdleBatch /\ IdleSignal /\ IdleLevels /\ IdleDetect /\ IdleScore
    /\ IdleScan /\ IdleFrame /\ IdleRetry

DetectBreakout ==
    /\ pc = "events_start"
    /\ events' = detect_breakout(bars)
    /\ pc' = "breakout_done"
    /\ UNCHANGED <<bars, batchVars, signalVars, levelVars, detectVars, scoreVars,
                   scanVars, frameVars, retryVars>>

DetectOverboughtOversold ==
    /\ pc = "events_start"
    /\ events' = detect_overbought_oversold(bars)
    /\ pc' = "rsi_done"
    /\ UNCHANGED <<bars, batchVars, signalVars, levelVars, detectVars, scoreVars,
                   scanVars, frameVars, retryVars>>

NextEvents == DetectBreakout \/ DetectOverboughtOversold

SpecEvents == InitEvents /\ [][NextEvents]_vars

(***************************************************************************)
(* SpecFrame: what the functions that are handed the caller's candle frame *)
(* do to it.  A frame is its rows (the closes stand for the row values)    *)
(* and its set of columns.  Each function is modelled by the pair          *)
(* [caller, work]: the caller's frame as the function leaves it, and the   *)
(* frame the function itself goes on to read.                              *)
(***************************************************************************)
MaxRows == 4

OhlcvColumns == {"date", "open", "high", "low", "close", "volume", "turnover"}

\* the columns _calculate_indicators assigns (pattern_detector.py:78-107);
\* "ma" stands for the ma_<period> columns
IndicatorColumns ==
    {"ma", "macd", "macd_signal", "macd_hist", "rsi",
     "bb_upper", "bb_middle", "bb_lower", "atr"}

\* _calculate_indicators assigning the columns to the frame it was given
CalculateIndicatorsInPlace(frame) ==
    LET written == [frame EXCEPT !.columns = @ \cup IndicatorColumns]
    IN  [caller |-> written, work |-> written]

\* _calculate_indicators (pattern_detector.py:73-109): df = df.copy() at
\* line 75, and every assignment after it is to the copy
calculate_indicators(frame) ==
    [caller |-> frame, work |-> [frame EXCEPT !.columns = @ \cup IndicatorColumns]]

\* get_support_resistance (pattern_detector.py:299-325): df.tail(window) is
\* a new frame, read through to_numpy()
support_resistance_frame(frame, w) ==
    [caller |-> frame,
     work |-> IF Len(frame.rows) < w THEN frame
              ELSE [frame EXCEPT !.rows = SubSeq(@, Len(@) - w + 1, Len(@))]]

\* _calculate_trend_score, _calculate_momentum_score, _calculate_volume_score
\* (scoring_engine.py:85-187): df.iloc[-1], df.iloc[-2], df.tail(10) and
\* "in df.columns" are reads
sub_score_frame(frame) == [caller |-> frame, work |-> frame]

CallerFrames ==
    {[rows |-> r, columns |-> c] :
        r \in UNION {[1..k -> {10, 11}] : k \in 0..MaxRows},
        c \in {OhlcvColumns, OhlcvColumns \cup {"ma", "rsi"}}}

InitFrame ==
    /\ pc = "frame_start"
    /\ caller_df \in CallerFrames
    /\ df_before = caller_df
    /\ work_df = None
    /\ IdleBatch /\ IdleSignal /\ IdleLevels /\ IdleDetect /\ IdleScore
    /\ IdleScan /\ IdleEvents /\ IdleRetry

\* detect_patterns(df): line 57, df = self._calculate_indicators(df); the
\* detectors after it read the copy
DetectPatternsOnFrame ==
    /\ pc = "frame_start"
    /\ \/ /\ "raises" \in IndicatorOutcomes(caller_df.rows)
          /\ pc' = "frame_raised"
          /\ UNCHANGED <<caller_df, work_df>>
       \/ /\ "returns" \in IndicatorOutcomes(caller_df.rows)
          /\ caller_df' = calculate_indicators(caller_df).caller
          /\ work_df' = calculate_indicators(caller_df).work
          /\ pc' = "frame_done"
    /\ UNCHANGED <<df_before, batchVars, signalVars, levelVars, detectVars, scoreVars,
                   scanVars, eventVars, retryVars>>

SupportResistanceOnFrame ==
    /\ pc = "frame_start"
    /\ \E w \in 1..MaxRows :
         /\ caller_df' = support_resistance_frame(caller_df, w).caller
         /\ work_df' = support_resistance_frame(caller_df, w).work
    /\ pc' = "frame_done"
    /\ UNCHANGED <<df_before, batchVars, signalVars, levelVars, detectVars, scoreVars,
                   scanVars, eventVars, retryVars>>

SubScoreOnFrame ==
    /\ pc = "frame_start"
    /\ caller_df' = sub_score_frame(caller_df).caller
    /\ work_df' = sub_score_frame(caller_df).work
    /\ pc' = "frame_done"
    /\ UNCHANGED <<df_before, batchVars, signalVars, levelVars, detectVars, scoreVars,
                   scanVars, eventVars, retryVars>>

NextFrame == DetectPatternsOnFrame \/ SupportResistanceOnFrame \/ SubScoreOnFrame

SpecFrame == InitFrame /\ [][NextFrame]_vars

(***************************************************************************)
(* SpecSummary: _generate_group_summary (signal_generator.py:217-242) on   *)
(* three lists of every size up to MaxBucket.  The function reads the      *)
(* lengths only.                                                           *)
(***************************************************************************)
MaxBucket == 10

Stub(rec) == [symbol |-> 0, recommendation |-> rec]
Buckets(rec) == {[k \in 1..n |-> Stub(rec)] : n \in 0..MaxBucket}

InitSummary ==
    /\ pc = "summary_start"
    /\ buy_list \in Buckets("buy")
    /\ hold_list \in Buckets("hold")
    /\ sell_list \in Buckets("sell")
    /\ group_result = None
    /\ entry = None /\ symbols = <<>> /\ i = 0 /\ dropped = <<>> /\ spots = <<>>
    /\ IdleSignal /\ IdleLevels /\ IdleDetect /\ IdleScore /\ IdleRest

GenerateGroupSummary ==
    /\ pc = "summary_start"
    /\ group_result' = generate_group_summary(buy_list, hold_list, sell_list)
    /\ pc' = "summary_done"
    /\ UNCHANGED <<entry, symbols, i, buy_list, hold_list, sell_list, dropped, spots,
                   signalVars, levelVars, detectVars, scoreVars, restVars>>

NextSummary == GenerateGroupSummary

SpecSummary == InitSummary /\ [][NextSummary]_vars

(***************************************************************************)
(* SpecRetry: AKShareProvider._fetch_with_retry                            *)
(* (akshare_provider.py:39-59):                                            *)
(*     for attempt in range(self.retry_times):                             *)
(*         try: return fetch_func(...)                                     *)
(*         except Exception:                                               *)
(*             if attempt < self.retry_times - 1:                          *)
(*                 time.sleep(self.retry_delay); continue                  *)
(*             raise                                                       *)
(*     return None                                                         *)
(* One step is one call of fetch_func (with what follows it up to the      *)
(* sleep or the exit) or one sleep.  fetch_func is the collaborator: each  *)
(* call returns a value or raises an exception, whichever the environment  *)
(* chooses.  The method runs on one thread with nothing to wait for but    *)
(* the fetch and the sleep, both taken to come back, hence the weak        *)
(* fairness of the steps.                                                  *)
(***************************************************************************)
MaxRetries == 4     \* largest retry_times tried

FetchValues == {"frame", "empty_frame"}
FetchErrors == {"timeout", "connection"}

\* fetch_func succeeded with value v / raised exception e
Returns(v) == [ok |-> TRUE, value |-> v]
Raises(e) == [ok |-> FALSE, error |-> e]

\* the test of line 55 with the bound off by one: sleeps after the last
\* attempt too
ShouldSleepAfterLast(a, n) == a < n

\* line 55: another attempt follows
ShouldSleep(a, n) == a < n - 1

InitRetry ==
    /\ pc = "retry_fetch"
    /\ retry_times \in 0..MaxRetries
    /\ attempt = 0
    /\ fetch_log = <<>>
    /\ sleeps = 0
    /\ retry_result = None
    /\ IdleBatch /\ IdleSignal /\ IdleLevels /\ IdleDetect /\ IdleScore
    /\ IdleScan /\ IdleEvents /\ IdleFrame

RetryOthers == <<batchVars, signalVars, levelVars, detectVars, scoreVars,
                 scanVars, eventVars, frameVars>>

\* line 53: the call succeeds and its value is returned
FetchSucceeds ==
    /\ pc = "retry_fetch" /\ attempt < retry_times
    /\ \E v \in FetchValues :
          /\ fetch_log' = Append(fetch_log, Returns(v))
          /\ retry_result' = Returns(v)
    /\ pc' = "retry_done"
    /\ UNCHANGED <<retry_times, attempt, sleeps, RetryOthers>>

\* lines 54-57: the call raises and another attempt follows
FetchFailsRetry ==
    /\ pc = "retry_fetch" /\ attempt < retry_times
    /\ ShouldSleep(attempt, retry_times)
    /\ \E e \in FetchErrors : fetch_log' = Append(fetch_log, Raises(e))
    /\ pc' = "retry_sleep"
    /\ UNCHANGED <<retry_times, attempt, sleeps, retry_result, RetryOthers>>

\* lines 54-58: the call raises on the last attempt; bare raise
FetchFailsLast ==
    /\ pc = "retry_fetch" /\ attempt < retry_times
    /\ ~ShouldSleep(attempt, retry_times)
    /\ \E e \in FetchErrors :
          /\ fetch_log' = Append(fetch_log, Raises(e))
          /\ retry_result' = Raises(e)
    /\ pc' = "retry_done"
    /\ UNCHANGED <<retry_times, attempt, sleeps, RetryOthers>>

\* lines 56-57: time.sleep(retry_delay); continue
Sleep ==
    /\ pc = "retry_sleep"
    /\ sleeps' = sleeps + 1
    /\ attempt' = attempt + 1
    /\ pc' = "retry_fetch"
    /\ UNCHANGED <<retry_times, fetch_log, retry_result, RetryOthers>>

\* line 59: the range is used up without a return or a raise
LoopExhausted ==
    /\ pc = "retry_fetch" /\ ~(attempt < retry_times)
    /\ retry_result' = Returns(None)
    /\ pc' = "retry_done"
    /\ UNCHANGED <<retry_times, attempt, fetch_log, sleeps, RetryOthers>>

NextRetry ==
    \/ FetchSucceeds
    \/ FetchFailsRetry
    \/ FetchFailsLast
    \/ Sleep
    \/ LoopExhausted

SpecRetry == InitRetry /\ [][NextRetry]_vars /\ WF_vars(NextRetry)

(***************************************************************************)
(* SpecSentiment: SentimentAnalyzer._calculate_limit_up_ratio              *)
(* (sentiment_analyzer.py:166-199) on the market statistics the provider   *)
(* gives.  With net = limit_up - limit_down and ratio = net / total the    *)
(* four branches are, as the code writes them,                             *)
(*     ratio < -0.01   max(1.0, 2.5 + (ratio + 0.01) * 150)                *)
(*     ratio < 0       2.5 + (ratio + 0.01) * 50                           *)
(*     ratio < 0.03    2.5 + (ratio / 0.03) * 1.5                          *)
(*     otherwise       min(4.0 + ((ratio - 0.03) / 0.02) * 1.0, 5.0)       *)
(* that is 4 + 150 ratio, 3 + 50 ratio, 2.5 + 50 ratio and 2.5 + 50 ratio. *)
(* The score is kept in hundredths and the ratio in units of 0.0001; the   *)
(* totals tried divide 5000, so the hundredths are exact.                  *)
(***************************************************************************)
MaxLimitCount == 5      \* largest limit-up / limit-down count tried

TotalCounts == {0, 100, 200, 1000}

calculate_limit_up_ratio(stats) ==
    LET total == stats.total_count
        limit_up == stats.limit_up_count
        limit_down == stats.limit_down_count
        net == limit_up - limit_down
    IN  IF total = 0 THEN [ratio |-> 0, score |-> 250]
        ELSE LET score ==
                     IF 100 * net < -total
                     THEN Max(100, 400 + (15000 * net) \div total)
                     ELSE IF net < 0
                     THEN 300 + (5000 * net) \div total
                     ELSE IF 100 * net < 3 * total
                     THEN 250 + (5000 * net) \div total
                     ELSE Min(250 + (5000 * net) \div total, 500)
             IN  [ratio |-> RoundHalfEven(10000 * net, total), score |-> score]

MarketStats ==
    {[total_count |-> t, limit_up_count |-> u, limit_down_count |-> d] :
        t \in TotalCounts, u \in 0..MaxLimitCount, d \in 0..MaxLimitCount}

InitSentiment ==
    /\ pc = "sentiment_start"
    /\ call \in {[op |-> "limit_up", stats |-> st] :
                    st \in {x \in MarketStats :
                               x.limit_up_count + x.limit_down_count <= x.total_count}}
    /\ score_result = None
    /\ fetched = {}
    /\ IdleBatch /\ IdleSignal /\ IdleLevels /\ IdleDetect /\ IdleRest

CalculateLimitUpRatio ==
    /\ pc = "sentiment_start"
    /\ score_result' = calculate_limit_up_ratio(call.stats)
    /\ pc' = "sentiment_done"
    /\ UNCHANGED <<call, fetched, batchVars, signalVars, levelVars, detectVars, restVars>>

NextSentiment == CalculateLimitUpRatio

SpecSentiment == InitSentiment /\ [][NextSentiment]_vars

(***************************************************************************)
(* Claims checked under Spec.                                              *)
(***************************************************************************)

\* what generate_group_signals returned, once it has returned
SignalsReturned == pc \in {"signals_returned", "done"}
GroupSignals ==
    IF entry = "analyze_group" /\ pc = "done" THEN group_result.signals ELSE group_result

\* C1: when generate_group_signals returns for N symbols of which M had an
\* error record from the scan, len(buy) + len(hold) + len(sell) = N - M,
\* and the record of every other symbol is in exactly one place of exactly
\* one bucket, the bucket its own recommendation names.
C1_GroupPartition ==
    SignalsReturned =>
        LET g == GroupSignals
            failed == {dropped[k].symbol : k \in DOMAIN dropped}
            places(sym) == {bk \in {"buy", "hold", "sell"} \X (1..Len(symbols)) :
                               /\ bk[2] \in DOMAIN g[bk[1]]
                               /\ g[bk[1]][bk[2]].symbol = sym}
        IN  /\ Len(g.buy) + Len(g.hold) + Len(g.sell) = Len(symbols) - Len(dropped)
            /\ \A k \in DOMAIN symbols :
                 IF symbols[k] \in failed
                 THEN places(symbols[k]) = {}
                 ELSE /\ Cardinality(places(symbols[k])) = 1
                      /\ \A bk \in places(symbols[k]) :
                           g[bk[1]][bk[2]].recommendation = bk[1]

\* three symbols: one dropped, one bought, one sold
C1_Witness ==
    /\ pc = "done"
    /\ entry = "generate_group_signals"
    /\ Len(symbols) = 3
    /\ Len(dropped) = 1
    /\ Len(group_result.buy) = 1
    /\ Len(group_result.sell) = 1

\* C2: in generate_group_signals and analyze_group a failure on one symbol
\* (empty candles, a fetch exception, a null quote) is caught and the
\* symbol left out: the batch never ends by raising.
C2_BatchNeverRaises == pc # "batch_raised"

\* where a symbol stands in the list handed to the batch
PositionOf(sym) == CHOOSE k \in DOMAIN symbols : symbols[k] = sym

\* C11: in what generate_group_signals returns, the buy bucket is in
\* non-increasing order of overall_score, the sell bucket in non-decreasing
\* order, and the hold bucket in the order the symbols were given.
C11_BucketOrder ==
    SignalsReturned =>
        LET g == GroupSignals
        IN  /\ \A a, b \in DOMAIN g.buy :
                 a < b => g.buy[a].overall_score >= g.buy[b].overall_score
            /\ \A a, b \in DOMAIN g.sell :
                 a < b => g.sell[a].overall_score <= g.sell[b].overall_score
            /\ \A a, b \in DOMAIN g.hold :
                 a < b => PositionOf(g.hold[a].symbol) < PositionOf(g.hold[b].symbol)

\* two buys that the sort had to swap: the later symbol has the higher
\* score and comes first
C11_Witness ==
    /\ pc = "done"
    /\ entry = "generate_group_signals"
    /\ Len(group_result.buy) = 2
    /\ Len(group_result.hold) = 1
    /\ group_result.buy[1].overall_score > group_result.buy[2].overall_score
    /\ PositionOf(group_result.buy[1].symbol) > PositionOf(group_result.buy[2].symbol)

(***************************************************************************)
(* Claims checked under SpecSignal.                                        *)
(***************************************************************************)

\* C3: with the default thresholds the recommendation is buy iff the signal
\* score is >= 7.0, sell iff it is <= 3.0 and hold otherwise (for the score
\* of the scanned list and for every score handed to
\* _generate_recommendation); strengths summing to +40 give 10.0 and buy,
\* summing to -40 give 0.0 and sell, and the empty list gives 5.0 and hold.
C3_RecommendationThresholds ==
    pc = "recommended" =>
        /\ (recommendation.action = "buy") <=> (overall_score >= 700)
        /\ (recommendation.action = "sell") <=> (overall_score <= 300)
        /\ (recommendation.action = "hold") <=> (overall_score > 300 /\ overall_score < 700)
        /\ \A sc \in {0, 299, 300, 301, 500, 699, 700, 701, 1000} :
              generate_recommendation(sc, signals).action =
                  (IF sc >= 700 THEN "buy" ELSE IF sc <= 300 THEN "sell" ELSE "hold")
        /\ SumStrength(signals) = 40 =>
              overall_score = 1000 /\ recommendation.action = "buy"
        /\ SumStrength(signals) = -40 =>
              overall_score = 0 /\ recommendation.action = "sell"
        /\ signals = <<>> =>
              overall_score = 500 /\ recommendation.action = "hold"

C3_Witness ==
    /\ pc = "recommended"
    /\ SumStrength(signals) = 40
    /\ recommendation.action = "buy"

\* the lists a scanned list's score is compared with for monotonicity:
\* every list of at most two events (sums -20 .. 20, both clamps included)
CompareLists == UNION {[1..k -> Events] : k \in 0..2}
CompareScores == {<<SumStrength(o), calculate_signal_score(o)>> : o \in CompareLists}

\* C4: the signal score is 5.0 + (sum of strengths / 8) * 5 clamped to
\* [0, 10] and rounded to two decimals (within half a hundredth of the
\* clamped value), so it lies in [0, 10], and it is non-decreasing in the
\* strength sum.
C4_SignalScoreFormula ==
    pc \in {"scored", "recommended"} =>
        LET total == SumStrength(signals)
            exact == 5000 + 625 * total
            clamped == IF exact < 0 THEN 0 ELSE IF exact > 10000 THEN 10000 ELSE exact
        IN  /\ overall_score \in 0..1000
            /\ 10 * overall_score - clamped \in -5..5
            /\ \A other \in CompareScores :
                  /\ other[1] <= total => other[2] <= overall_score
                  /\ other[1] >= total => other[2] >= overall_score

\* a score that the rounding step changed (5.625 becomes 5.62)
C4_Witness ==
    /\ pc = "scored"
    /\ SumStrength(signals) = 1
    /\ overall_score = 562

\* C10: the risk tier is decided by the pattern list alone: very_high for
\* two or more events of strength < -3, high for exactly one, low for none
\* of those and at least one event of strength > 3, medium otherwise,
\* whatever score is handed to _generate_recommendation.
C10_RiskTier ==
    pc = "recommended" =>
        LET neg == Cardinality({k \in DOMAIN signals : signals[k].strength < -3})
            pos == Cardinality({k \in DOMAIN signals : signals[k].strength > 3})
            tier == IF neg >= 2 THEN "very_high"
                    ELSE IF neg = 1 THEN "high"
                    ELSE IF pos >= 1 THEN "low"
                    ELSE "medium"
        IN  /\ recommendation.risk_level = tier
            /\ \A sc \in {0, 300, 500, 700, 1000} :
                  generate_recommendation(sc, signals).risk_level = tier

\* a buy recommendation that carries risk high: one negative event among
\* positive ones
C10_Witness ==
    /\ pc = "recommended"
    /\ recommendation.action = "buy"
    /\ recommendation.risk_level = "high"
    /\ \E k \in DOMAIN signals : signals[k].strength > 3

(***************************************************************************)
(* Claims checked under SpecLevels.                                        *)
(***************************************************************************)

\* seq lists, in ascending order, the three highest values of S (all of
\* them when S has fewer than three)
IsTopThreeAscending(seq, S) ==
    LET chosen == {seq[k] : k \in DOMAIN seq}
    IN  /\ \A k \in 1..(Len(seq) - 1) : seq[k] < seq[k + 1]
        /\ chosen \subseteq S
        /\ Len(seq) = (IF Cardinality(S) < 3 THEN Cardinality(S) ELSE 3)
        /\ \A x \in S \ chosen : \A t \in chosen : x < t

\* C7: with at least `window` bars, support_levels are the three highest
\* distinct 2-decimal-rounded lows of the trailing `window` bars and
\* resistance_levels the three highest distinct rounded highs, ascending
\* (all of them when fewer than three exist); with fewer bars than the
\* window (the empty series included) both lists are empty.
C7_SupportResistance ==
    pc \in {"levels_found", "levels_done", "levels_raised"} =>
        LET n == Len(df)
            trailing == (n - window + 1)..n
            lows == {Round2(df[k].low) : k \in trailing}
            highs == {Round2(df[k].high) : k \in trailing}
        IN  IF n < window
            THEN /\ scan_result.support_levels = <<>>
                 /\ scan_result.resistance_levels = <<>>
            ELSE /\ IsTopThreeAscending(scan_result.support_levels, lows)
                 /\ IsTopThreeAscending(scan_result.resistance_levels, highs)

\* a window holding four distinct rounded lows, the lowest of which is left
\* out of the support levels
C7_Witness ==
    /\ pc = "levels_found"
    /\ Len(df) >= window
    /\ Cardinality({Round2(df[k].low) : k \in (Len(df) - window + 1)..Len(df)}) = 4
    /\ scan_result.support_levels = <<100, 101, 102>>

\* C8: a quote price of exactly 0 gives the "unavailable" text for
\* entry_zone, target_zone and stop_loss alike, whatever the support and
\* resistance levels are, and nothing is raised.
C8_ZeroPriceUnavailable ==
    (pc \in {"levels_done", "levels_raised"} /\ scan_result.price = Some(0)) =>
        /\ pc = "levels_done"
        /\ key_levels.entry_zone = Unavailable
        /\ key_levels.target_zone = Unavailable
        /\ key_levels.stop_loss = Unavailable

C8_Witness ==
    /\ pc = "levels_done"
    /\ scan_result.price = Some(0)
    /\ scan_result.support_levels # <<>>
    /\ scan_result.resistance_levels # <<>>
    /\ key_levels.stop_loss = Unavailable

\* c is the value n / d (in cents) shown with two decimals
ShownAs(c, n, d) == 2 * c * d - 2 * n <= d /\ 2 * n - 2 * c * d <= d

\* C9: for a price other than 0, shown with two decimals: the entry zone is
\* [min(support), price] when support levels exist and [price * 0.98,
\* price] otherwise; the target zone is [price, max(resistance)] when
\* resistance levels exist and [price, price * 1.10] otherwise; the
\* stop-loss is min(support) * 0.97 when support exists and price * 0.95
\* otherwise.
C9_KeyLevels ==
    (pc = "levels_done" /\ scan_result.price # Some(0)) =>
        LET price == Val(scan_result.price)
            support == scan_result.support_levels
            resistance == scan_result.resistance_levels
            entry_zone == key_levels.entry_zone
            target_zone == key_levels.target_zone
            stop_loss == key_levels.stop_loss
        IN  /\ Len(entry_zone) = 2 /\ Len(target_zone) = 2 /\ Len(stop_loss) = 1
            /\ ShownAs(entry_zone[2], price, 10)
            /\ ShownAs(target_zone[1], price, 10)
            /\ IF support # <<>>
               THEN /\ \E k \in DOMAIN support : entry_zone[1] = support[k]
                    /\ \A k \in DOMAIN support : entry_zone[1] <= support[k]
                    /\ ShownAs(stop_loss[1], 97 * entry_zone[1], 100)
               ELSE /\ ShownAs(entry_zone[1], 98 * price, 1000)
                    /\ ShownAs(stop_loss[1], 95 * price, 1000)
            /\ IF resistance # <<>>
               THEN /\ \E k \in DOMAIN resistance : target_zone[2] = resistance[k]
                    /\ \A k \in DOMAIN resistance : target_zone[2] >= resistance[k]
               ELSE ShownAs(target_zone[2], 110 * price, 1000)

\* key levels computed from several support levels and a price whose
\* display is rounded
C9_Witness ==
    /\ pc = "levels_done"
    /\ scan_result.price = Some(1036)
    /\ Len(scan_result.support_levels) = 3
    /\ key_levels.entry_zone = <<100, 104>>
    /\ key_levels.stop_loss = <<97>>

(***************************************************************************)
(* Claims checked under SpecScore.                                         *)
(***************************************************************************)
InScale(score) == 0 <= score /\ score <= 1000

\* C5: every sub-score (trend, momentum, volume, valuation, growth,
\* quality) and every combined score (technical, fundamental, and the three
\* scores calculate_overall_score returns) lies in [0, 10], for every
\* candle series and every nullable PE and PB, with the default weights.
C5_ScoresInScale ==
    pc = "score_done" =>
        IF call.op \in {"trend", "momentum", "volume", "valuation"}
        THEN InScale(score_result)
        ELSE IF call.op \in {"technical", "fundamental"}
        THEN /\ InScale(score_result.score)
             /\ \A c \in DOMAIN score_result.components :
                  InScale(score_result.components[c])
        ELSE /\ InScale(score_result.overall_score)
             /\ InScale(score_result.technical_score)
             /\ InScale(score_result.fundamental_score)

\* a technical score off the base, its trend component at the low 4.0
C5_Witness ==
    /\ pc = "score_done"
    /\ call.op = "technical"
    /\ score_result.score # 500
    /\ DOMAIN score_result.components = {"trend", "momentum", "volume"}
    /\ score_result.components.trend = 400

(***************************************************************************)
(* Claims checked under SpecDetect.                                        *)
(***************************************************************************)
Pairs == 1..(Len(ma_periods) - 1)

\* fast-MA <= slow-MA on the prior bar and fast-MA > slow-MA on the latest
GoldenCondition(k) ==
    /\ Len(closes) >= 2
    /\ MaLe(MA(closes, ma_periods[k], Len(closes) - 1),
            MA(closes, ma_periods[k + 1], Len(closes) - 1))
    /\ MaGt(MA(closes, ma_periods[k], Len(closes)),
            MA(closes, ma_periods[k + 1], Len(closes)))

DeathCondition(k) ==
    /\ Len(closes) >= 2
    /\ MaGe(MA(closes, ma_periods[k], Len(closes) - 1),
            MA(closes, ma_periods[k + 1], Len(closes) - 1))
    /\ MaLt(MA(closes, ma_periods[k], Len(closes)),
            MA(closes, ma_periods[k + 1], Len(closes)))

HasCross(type, k, strength) ==
    \E j \in DOMAIN patterns :
        /\ patterns[j].type = type
        /\ patterns[j].fast = ma_periods[k]
        /\ patterns[j].slow = ma_periods[k + 1]
        /\ patterns[j].strength = strength

HasCrossOfType(type, k) ==
    \E j \in DOMAIN patterns :
        /\ patterns[j].type = type
        /\ patterns[j].fast = ma_periods[k]
        /\ patterns[j].slow = ma_periods[k + 1]

CrossesAsClaimed ==
    \A k \in Pairs :
        /\ GoldenCondition(k) =>
              HasCross("golden_cross", k, 8) /\ ~HasCrossOfType("death_cross", k)
        /\ DeathCondition(k) =>
              HasCross("death_cross", k, -8) /\ ~HasCrossOfType("golden_cross", k)

\* C6, as it holds: on a series with at least as many bars as the largest
\* configured period, for each adjacent pair (fast, slow) of periods, when
\* fast-MA <= slow-MA on the prior bar (equality included) and fast-MA >
\* slow-MA on the latest bar, detect_patterns emits a golden_cross of
\* strength +8 for the pair and no death_cross for it; the mirrored
\* condition gives a death_cross of strength -8 and no golden_cross.
C6_CrossDetection ==
    (pc = "detected" /\ Len(closes) >= ma_periods[Len(ma_periods)]) => CrossesAsClaimed

\* C6 as stated, for a series of any length: refuted by a series shorter
\* than the largest period on which a faster pair crosses
C6_CrossDetectionAnyLength ==
    pc = "detected" => CrossesAsClaimed

\* the fast and the slow average equal on the prior bar, the fast above on
\* the latest, and the golden cross of the pair emitted
C6_Witness ==
    /\ pc = "detected"
    /\ \E k \in Pairs :
         /\ GoldenCondition(k)
         /\ MaGe(MA(closes, ma_periods[k], Len(closes) - 1),
                 MA(closes, ma_periods[k + 1], Len(closes) - 1))
         /\ HasCross("golden_cross", k, 8)

(***************************************************************************)
(* Claims checked under SpecSummary.                                       *)
(***************************************************************************)
\* the text the buy-ratio b / t selects: strictly above 50%, 30%, 10%
TextOfRatio(b, t) ==
    IF b * 100 > 50 * t THEN "many_opportunities"
    ELSE IF b * 100 > 30 * t THEN "moderately_bullish"
    ELSE IF b * 100 > 10 * t THEN "mixed"
    ELSE "weak_caution"

SummaryTotal == Len(buy_list) + Len(hold_list) + Len(sell_list)

\* C12, as it holds: when the three buckets hold at least one record, the
\* summary text is chosen by len(buy) / total alone: strictly above 50%
\* 'many opportunities', else strictly above 30% 'moderately bullish',
\* else strictly above 10% 'mixed', else 'weak, caution'.  With no record
\* at all the text is a fifth one, 'no analysis results'.
C12_SummaryText ==
    pc = "summary_done" =>
        IF SummaryTotal = 0 THEN group_result = <<"no_results">>
        ELSE group_result[1] = TextOfRatio(Len(buy_list), SummaryTotal)

\* C12 as stated: one of the four texts in every case
C12_SummaryTextEveryCase ==
    pc = "summary_done" => group_result[1] = TextOfRatio(Len(buy_list), SummaryTotal)

\* 3 buys of 10 records: on the 30% cut, not above it
C12_Witness ==
    /\ pc = "summary_done"
    /\ Len(buy_list) = 3
    /\ SummaryTotal = 10
    /\ group_result = <<"mixed", 3>>

ScanFailed(symbol) ==
    LET c == answers[symbol].candles
    IN  \/ ~c.ok
        \/ c.empty
        \/ ~answers[symbol].quote.ok
        \/ ~c.detect_ok
        \/ ~c.levels_ok

\* C14: when the candle fetch gives an empty series or any step of the scan
\* raises, scan_stock returns a record of exactly the symbol and an error
\* message, and analyze_stock returns that record as it is, without a
\* score and without raising.
C14_ErrorRecord ==
    \A k \in DOMAIN runs :
        ScanFailed(runs[k].symbol) =>
            /\ DOMAIN runs[k].scan = {"symbol", "error"}
            /\ runs[k].scan.symbol = runs[k].symbol
            /\ ~runs[k].raised
            /\ runs[k].result = runs[k].scan

\* the detector raised on a fetched series
C14_Witness ==
    /\ runs # <<>>
    /\ answers[runs[1].symbol].candles.ok
    /\ ~answers[runs[1].symbol].candles.empty
    /\ answers[runs[1].symbol].quote.ok
    /\ ~answers[runs[1].symbol].candles.detect_ok
    /\ runs[1].result = [symbol |-> runs[1].symbol, error |-> "detect_failed"]

\* C15: with a non-empty candle series and a quote whose price or
\* change_pct is null, analyze_stock returns a signal record or an error
\* record and does not throw.
C15_NullQuoteTolerated ==
    \A k \in DOMAIN runs :
        LET c == answers[runs[k].symbol].candles
            q == answers[runs[k].symbol].quote
        IN  (c.ok /\ ~c.empty /\ q.ok /\ (q.price = Null \/ q.change_pct = Null))
                => ~runs[k].raised

(***************************************************************************)
(* Further claims checked under SpecScore.                                 *)
(***************************************************************************)
\* C16: calculate_technical_score returns score 5.0 with an empty
\* components mapping when the fetch fails, when the series is empty, and
\* whenever the series has fewer than 20 bars.
C16_NeutralWhenInsufficient ==
    (pc = "score_done" /\ call.op = "technical") =>
        ((~call.candles.ok \/ call.candles.frame.n < MinBars)
            => score_result = [score |-> 500, components |-> NoComponents])

(***************************************************************************)
(* Further claims checked under SpecDetect.                                *)
(***************************************************************************)
\* C17: whenever the series has fewer rows than the largest configured MA
\* period, the empty series included, detect_patterns returns an empty
\* list and does not raise.
C17_EmptyWhenShort ==
    Len(closes) < ma_periods[Len(ma_periods)] =>
        /\ pc # "detect_raised"
        /\ (pc = "detected" => patterns = <<>>)

(***************************************************************************)
(* Claims checked under SpecEvents.                                        *)
(***************************************************************************)
EventsOfType(type) == {k \in DOMAIN events : events[k].type = type}

\* latest close > previous close and latest volume > 1.5 * previous volume
BreakoutCondition ==
    /\ Gt(bars.close, bars.prev_close)
    /\ NotNa(bars.volume) /\ NotNa(bars.prev_volume)
    /\ 2 * Val(bars.volume) > 3 * Val(bars.prev_volume)

PreviousVolumeZeroOrNull ==
    bars.prev_volume = Null \/ bars.prev_volume = Some(0)

\* C19: _detect_breakout emits the volume breakout, once and with strength
\* +7, exactly when the latest close is above the previous close and the
\* latest volume above 1.5 times the previous volume; with a previous
\* volume of zero or null it emits none (and does not raise).
C19_VolumeBreakout ==
    pc = "breakout_done" =>
        /\ Cardinality(EventsOfType("volume_breakout")) <= 1
        /\ \A k \in EventsOfType("volume_breakout") : events[k].strength = 7
        /\ PreviousVolumeZeroOrNull => EventsOfType("volume_breakout") = {}
        /\ ~PreviousVolumeZeroOrNull =>
              (EventsOfType("volume_breakout") # {} <=> BreakoutCondition)

\* the close rose on 151 lots after 100: just above 1.5 times
C19_Witness ==
    /\ pc = "breakout_done"
    /\ bars.volume = Some(151)
    /\ bars.prev_volume = Some(100)
    /\ EventsOfType("volume_breakout") # {}

\* C20: a latest RSI below the oversold cut gives exactly one event, of
\* strength +7; above the overbought cut exactly one, of strength -7; on a
\* cut or between the cuts none; a null RSI none; never both events.
C20_OverboughtOversold ==
    pc = "rsi_done" =>
        IF bars.rsi = Null THEN events = <<>>
        ELSE IF Val(bars.rsi) < oversold THEN events = <<EventOf("rsi_oversold", 7)>>
        ELSE IF Val(bars.rsi) > overbought THEN events = <<EventOf("rsi_overbought", -7)>>
        ELSE events = <<>>

\* an RSI of 29.9 gives the oversold event
C20_Witness ==
    /\ pc = "rsi_done"
    /\ bars.rsi = Some(299)
    /\ events = <<EventOf("rsi_oversold", 7)>>

(***************************************************************************)
(* Claims checked under SpecFrame.                                         *)
(***************************************************************************)
\* C18: after detect_patterns, get_support_resistance or a scoring
\* sub-score function has returned (or raised), the caller's frame has the
\* rows, columns and values it had when the call was made; the indicator
\* columns are in the callee's copy only.
C18_CallerFrameUntouched ==
    pc # "frame_start" => caller_df = df_before

\* the indicators were written: the callee's frame has the columns, the
\* caller's has not
C18_Witness ==
    /\ pc = "frame_done"
    /\ caller_df.rows # <<>>
    /\ "macd" \in work_df.columns
    /\ "macd" \notin caller_df.columns

(***************************************************************************)
(* Claims about the sub-scores, checked under SpecScore.                   *)
(***************************************************************************)
TrendCall == pc = "score_done" /\ call.op = "trend" /\ call.frame.n >= MinBars

\* what the frame lets the engine see of the two moving averages
MaAbove(frame) == frame.indicators /\ Gt(frame.ma_5, frame.ma_20)
MaNotAbove(frame) ==
    /\ frame.indicators /\ NotNa(frame.ma_5) /\ NotNa(frame.ma_20)
    /\ Val(frame.ma_5) <= Val(frame.ma_20)
CloseAboveMa(frame) == frame.indicators /\ Gt(frame.close, frame.ma_20)
CloseRose(frame) == Gt(frame.close, frame.start_close)

RsiDelta(rsi) ==
    IF rsi = Null THEN 0
    ELSE IF 40 <= Val(rsi) /\ Val(rsi) <= 60 THEN 100
    ELSE IF (30 <= Val(rsi) /\ Val(rsi) < 40) \/ (60 < Val(rsi) /\ Val(rsi) <= 70) THEN 50
    ELSE IF Val(rsi) < 30 THEN 100
    ELSE -100

HistDelta(hist) ==
    IF hist = Null THEN 0 ELSE IF Val(hist) > 0 THEN 50 ELSE -50

\* C22: the momentum sub-score calculate_technical_score computes for a
\* series of at least 20 bars is 5.0 plus the RSI step (+1.0 in [40, 60],
\* +0.5 in [30, 40) or (60, 70], +1.0 below 30, -1.0 above 70) plus the
\* histogram step (+0.5 above 0, -0.5 otherwise), clamped to [0, 10].
C22_MomentumOfTechnical ==
    (pc = "score_done" /\ call.op = "technical" /\ call.candles.ok
        /\ call.candles.frame.n >= MinBars) =>
        score_result.components.momentum =
            Clamp10(500 + RsiDelta(call.candles.frame.rsi)
                        + HistDelta(call.candles.frame.macd_hist))

VolumeCall == pc = "score_done" /\ call.op = "volume" /\ call.frame.n >= MinBars

\* the sign of the change from b to a, as the claim reads it: no change
\* when a value is null
SignOfChange(a, b) ==
    IF a = Null \/ b = Null THEN 0
    ELSE IF Val(a) > Val(b) THEN 1 ELSE IF Val(a) < Val(b) THEN -1 ELSE 0

\* C23: for a series of at least 20 bars the volume sub-score is 5.0 plus
\* 1.5 when price and volume both rose, minus 0.5 when both fell, plus 0.5
\* when the price rose and the volume fell, minus 1.0 when the price fell and
\* the volume rose, and plus 0 when either change is zero, one of the four
\* values is null, or the previous volume is zero.
C23_VolumeScore ==
    VolumeCall =>
        LET frame == call.frame
            anyNull == \E x \in {frame.close, frame.prev_close,
                                 frame.volume, frame.prev_volume} : x = Null
            price == SignOfChange(frame.close, frame.prev_close)
            volume == SignOfChange(frame.volume, frame.prev_volume)
            delta == IF anyNull \/ frame.prev_volume = Some(0) THEN 0
                     ELSE IF price = 0 \/ volume = 0 THEN 0
                     ELSE IF price = 1 /\ volume = 1 THEN 150
                     ELSE IF price = -1 /\ volume = -1 THEN -50
                     ELSE IF price = 1 /\ volume = -1 THEN 50
                     ELSE -100
        IN  score_result = 500 + delta

\* the price rose from a previous volume of zero: no step
C23_Witness ==
    /\ VolumeCall
    /\ call.frame.prev_volume = Some(0)
    /\ Gt(call.frame.volume, call.frame.prev_volume)
    /\ Gt(call.frame.close, call.frame.prev_close)
    /\ score_result = 500

\* the steps of the valuation rule; PE as a whole number, PB in tenths
PeDelta(pe) ==
    IF pe = Null THEN 0
    ELSE IF Val(pe) < 15 THEN 200
    ELSE IF 15 <= Val(pe) /\ Val(pe) < 30 THEN 100
    ELSE IF Val(pe) > 50 THEN -100
    ELSE 0

PbDelta(pb) ==
    IF pb = Null THEN 0
    ELSE IF Val(pb) < 15 THEN 100
    ELSE IF 15 <= Val(pb) /\ Val(pb) < 30 THEN 50
    ELSE IF Val(pb) > 50 THEN -100
    ELSE 0

\* C24: the fundamental score is 0.3 * valuation + 0.4 * growth + 0.3 *
\* quality with growth and quality at 5.0 whatever the input, and the
\* valuation 5.0 plus the PE step (+2.0 below 15, +1.0 in [15, 30), -1.0
\* above 50) plus the PB step (+1.0 below 1.5, +0.5 in [1.5, 3), -1.0 above
\* 5), a null PE or PB giving no step.
C24_FundamentalScore ==
    /\ (pc = "score_done" /\ call.op = "valuation") =>
           score_result = Clamp10(500 + PeDelta(call.financial.pe)
                                      + PbDelta(call.financial.pb))
    /\ (pc = "score_done" /\ call.op = "fundamental" /\ call.summary.ok) =>
           LET valuation == Clamp10(500 + PeDelta(call.summary.financial.pe)
                                        + PbDelta(call.summary.financial.pb))
           IN  /\ score_result.components =
                      [valuation |-> valuation, growth |-> 500, quality |-> 500]
               /\ 10 * score_result.score = 3 * valuation + 4 * 500 + 3 * 500

\* a PE of exactly 15 and a PB of exactly 1.5: the smaller steps, score 5.45
C24_Witness ==
    /\ pc = "score_done" /\ call.op = "fundamental" /\ call.summary.ok
    /\ call.summary.financial = [pe |-> Some(15), pb |-> Some(15)]
    /\ score_result.score = 545

OverallCall == pc = "score_done" /\ call.op = "overall"

\* C25: with the default weights calculate_overall_score returns
\* technical * 0.6 + fundamental * 0.4 (to two decimals), takes a score the
\* caller supplied as it is and fetches only for a score left out; when
\* both are left out and both fetches fail the overall score is exactly 5.0.
C25_OverallScore ==
    OverallCall =>
        /\ score_result.overall_score =
               RoundHalfEven(score_result.technical_score * 6
                             + score_result.fundamental_score * 4, 10)
        /\ (call.technical_score # Null =>
               score_result.technical_score = Val(call.technical_score))
        /\ (call.fundamental_score # Null =>
               score_result.fundamental_score = Val(call.fundamental_score))
        /\ ("candles" \in fetched <=> call.technical_score = Null)
        /\ ("summary" \in fetched <=> call.fundamental_score = Null)
        /\ ((call.technical_score = Null /\ call.fundamental_score = Null
             /\ ~call.candles.ok /\ ~call.summary.ok)
               => score_result.overall_score = 500)

\* a supplied technical score is used although the candles would give
\* another one; only the financial summary is fetched
C25_Witness ==
    /\ OverallCall
    /\ call.technical_score = Some(1000) /\ call.fundamental_score = Null
    /\ call.candles.ok /\ call.candles.frame.n >= MinBars
    /\ fetched = {"summary"}
    /\ score_result.technical_score = 1000
    /\ score_result.overall_score > 600 + 160

\* C29: with the default weights the fundamental score lies in [4.4, 5.9]
\* and the valuation in [3.0, 8.0] for every nullable PE and PB, so no
\* fundamental score reaches the report's cut `score >= 7`.
C29_FundamentalRange ==
    /\ (pc = "score_done" /\ call.op = "valuation") =>
           (300 <= score_result /\ score_result <= 800)
    /\ (pc = "score_done" /\ call.op = "fundamental") =>
           /\ 440 <= score_result.score /\ score_result.score <= 590
           /\ ~(score_result.score >= high_score_cut)
           /\ \A c \in DOMAIN score_result.components :
                c = "valuation" =>
                    /\ 300 <= score_result.components[c]
                    /\ score_result.components[c] <= 800

\* the top of the range: a low PE and a low PB give valuation 8.0, score 5.9
C29_Witness ==
    /\ pc = "score_done" /\ call.op = "fundamental" /\ call.summary.ok
    /\ score_result.components.valuation = 800
    /\ score_result.score = 590

(***************************************************************************)
(* Claims checked under SpecDetected.                                      *)
(***************************************************************************)
Recommended == pc = "recommended"

\* C26: for a pattern list of detector events (strengths +-5, +-6, +-7,
\* +-8) and the default thresholds: risk "low" comes only with "buy"; risk
\* "medium" comes only for the empty list, with score 5.0 and "hold"; and
\* "sell" comes only with risk "high" or "very_high".
C26_RiskMatchesAction ==
    Recommended =>
        /\ (recommendation.risk_level = "low" => recommendation.action = "buy")
        /\ (recommendation.risk_level = "medium" =>
               (signals = <<>> /\ overall_score = 500 /\ recommendation.action = "hold"))
        /\ (recommendation.action = "sell" =>
               recommendation.risk_level \in {"high", "very_high"})

\* one candlestick event of strength 5 alone: low risk, score 8.12, buy
C26_Witness ==
    /\ Recommended
    /\ Len(signals) = 1 /\ signals[1].strength = 5
    /\ recommendation.risk_level = "low"
    /\ recommendation.action = "buy"

(***************************************************************************)
(* Further claims checked under SpecLevels.                                *)
(***************************************************************************)
\* C27: whenever the key levels are available (a price above 0 and positive
\* support levels), stop_loss < entry low <= entry high = price <= target
\* high, for every support / resistance pair get_support_resistance can
\* return and any quote price.
C27_KeyLevelsOrdered ==
    (/\ pc = "levels_done"
     /\ Val(scan_result.price) > 0
     /\ scan_result.support_levels # <<>>
     /\ \A k \in DOMAIN scan_result.support_levels : scan_result.support_levels[k] > 0)
    =>
        /\ key_levels.stop_loss[1] < key_levels.entry_zone[1]
        /\ key_levels.entry_zone[1] <= key_levels.entry_zone[2]
        /\ key_levels.entry_zone[2] = Fmt2(Val(scan_result.price), 10)
        /\ key_levels.entry_zone[2] <= key_levels.target_zone[2]

(***************************************************************************)
(* Claims checked under SpecRetry.                                         *)
(***************************************************************************)
FailedCalls == {k \in 1..Len(fetch_log) : ~fetch_log[k].ok}

RetrySafety ==
    retry_times >= 1 =>
        \* at most n calls
        /\ Len(fetch_log) <= retry_times
        \* a success is the last call made and ends the method with its value
        /\ \A k \in 1..Len(fetch_log) :
              fetch_log[k].ok =>
                  /\ k = Len(fetch_log)
                  /\ pc = "retry_done"
                  /\ retry_result = fetch_log[k]
        \* one sleep between two attempts and no other
        /\ sleeps = IF pc = "retry_fetch" THEN Len(fetch_log) ELSE Len(fetch_log) - 1
        /\ (pc = "retry_sleep" => Len(fetch_log) < retry_times)
        \* when every call failed: n calls, n - 1 sleeps, the last exception
        /\ (pc = "retry_done" /\ FailedCalls = 1..Len(fetch_log)) =>
              /\ Len(fetch_log) = retry_times
              /\ sleeps = retry_times - 1
              /\ retry_result = fetch_log[retry_times]

\* C28: with retry_times = n >= 1, _fetch_with_retry calls fetch at most n
\* times, stops at the first success and returns its value, sleeps only
\* between two attempts (n - 1 sleeps when every attempt fails, none after
\* the last), re-raises the last exception after n failures, and always
\* comes to an end.
C28_FetchWithRetry == []RetrySafety /\ <>(pc = "retry_done")

\* three attempts that all fail, the last with another exception than the
\* first: two sleeps, the last exception raised
C28_Witness ==
    /\ pc = "retry_done"
    /\ retry_times = 3
    /\ Len(fetch_log) = 3
    /\ fetch_log[1] = Raises("timeout")
    /\ fetch_log[3] = Raises("connection")
    /\ sleeps = 2
    /\ retry_result = Raises("connection")

(***************************************************************************)
(* Claims checked under SpecSentiment.                                     *)
(***************************************************************************)
NetCount(stats) == stats.limit_up_count - stats.limit_down_count

\* C30: for one total count the limit-up score does not decrease when the
\* net ratio (limit_up_count - limit_down_count) / total_count increases,
\* and it lies in [1.0, 5.0].
C30_LimitUpMonotone ==
    pc = "sentiment_done" =>
        /\ 100 <= score_result.score /\ score_result.score <= 500
        /\ \A other \in MarketStats :
              (/\ other.total_count = call.stats.total_count
               /\ NetCount(other) >= NetCount(call.stats))
                 => calculate_limit_up_ratio(other).score >= score_result.score

====
